---- MODULE Spec2Model ----
(***************************************************************************)
(* Model of the request authorization layer of the AI Slop Detector        *)
(* backend: the token service (auth.service.ts), the auth endpoints        *)
(* (auth.controller.ts), the auth middleware (auth.middleware.ts) and the  *)
(* rate limiter (rate-limit.service.ts).                                   *)
(*                                                                         *)
(* Strings are sequences of symbols; a symbol is a TLA+ string standing    *)
(* for one unit of the JavaScript string.  The clock is in milliseconds.   *)
(***************************************************************************)
EXTENDS Integers, Sequences, FiniteSets, TLC

VARIABLES
    now,        \* Date.now(): the host clock, in milliseconds
    users,      \* table users: set of rows
    blacklist,  \* table token_blacklist: set of rows
    issued,     \* session tokens handed out by sign-in, with the sign-in facts
    req,        \* the auth request in flight (logout, verify, analysis entry)
    cleanups,   \* cleanupExpiredTokens calls whose DELETE has not executed yet
    resp,       \* the response the last step sent, NoResp when it sent none
    ops,        \* how many writing operations the token service has started
    usage,      \* table usage_analytics: set of rows
    rl,         \* the checkRateLimit call in flight
    rlResp,     \* what the last step's checkRateLimit call returned, if any
    rlLog,      \* history of the caller's checkRateLimit calls on its last day
    tz,         \* Date.prototype.getTimezoneOffset() of the host, in minutes
    cache,      \* table cache_entries: set of rows
    an,         \* the analysis request in flight
    anResp,     \* the response the analysis endpoint sent in the last step, if any
    anLog,      \* history of the analysis requests: results stored, failed statements
    keys,       \* two request bodies and the cache keys derived from them
    tasks       \* the calls that run concurrently with each other, by task

vars == <<now, users, blacklist, issued, req, cleanups, resp, ops, usage, rl, rlResp, rlLog, tz,
          cache, an, anResp, anLog, keys, tasks>>

authVars == <<users, blacklist, issued, req, cleanups, resp, ops>>
rateVars == <<usage, rl, rlResp, rlLog, tz>>
analysisVars == <<cache, an, anResp, anLog, keys, tasks>>

-----------------------------------------------------------------------------
(* Bounds of the model *)

\* operations that write to the store in one run of the token service:
\* sign-ins that return a token, logout requests, cleanupExpiredTokens calls
MaxOps == 2
\* checkRateLimit calls of one identity on one day
MaxCalls == 52
\* checkRateLimit calls with a failing store statement in one run
MaxFailedCalls == 1
\* analysis requests in one run of the analysis endpoint
MaxRequests == 2
\* calls of one kind that overlap in time
MaxTasks == 2
\* calls started in one run of overlapping calls
MaxStarted == 3

-----------------------------------------------------------------------------
(* String helpers: the JavaScript string methods the code uses *)

Dot == "."

BearerPrefix == <<"B", "e", "a", "r", "e", "r", " ">>

\* String.prototype.startsWith
StartsWith(s, pat) ==
    /\ Len(s) >= Len(pat)
    /\ SubSeq(s, 1, Len(pat)) = pat

\* String.prototype.indexOf, 1-based; 0 when pat does not occur
IndexOf(s, pat) ==
    LET hits == {i \in 1..(Len(s) - Len(pat) + 1) : SubSeq(s, i, i + Len(pat) - 1) = pat}
    IN IF hits = {} THEN 0 ELSE CHOOSE i \in hits : \A j \in hits : i <= j

\* String.prototype.replace(pat, rep) with a string pattern: the FIRST
\* occurrence of pat, wherever it is, is replaced
Replace(s, pat, rep) ==
    LET i == IndexOf(s, pat)
    IN IF i = 0 THEN s
       ELSE SubSeq(s, 1, i - 1) \o rep \o SubSeq(s, i + Len(pat), Len(s))

\* String.prototype.substring(n): drops the first n units
Substring(s, n) == SubSeq(s, n + 1, Len(s))

\* String.prototype.split(sep) for a one-unit separator
RECURSIVE Split(_, _)
Split(s, sep) ==
    LET hits == {i \in 1..Len(s) : s[i] = sep}
    IN IF hits = {} THEN <<s>>
       ELSE LET i == CHOOSE k \in hits : \A j \in hits : k <= j
            IN <<SubSeq(s, 1, i - 1)>> \o Split(SubSeq(s, i + 1, Len(s)), sep)

\* `${a}.${b}`
JoinDot(a, b) == a \o <<Dot>> \o b

\* the units of a string written out one after the other, each closed by "|"
RECURSIVE Flat(_)
Flat(s) == IF s = <<>> THEN "" ELSE (s[1] \o "|") \o Flat(Tail(s))

-----------------------------------------------------------------------------
(* The clock *)

\* 24 * 60 * 60: the token lifetime in seconds (generateJWT)
TOKEN_LIFETIME_S == 24 * 60 * 60
\* 24 * 60 * 60 * 1000: the lifetime of a blacklist row in ms (addTokenToBlacklist)
BLACKLIST_TTL_MS == 24 * 60 * 60 * 1000
\* milliseconds in a day, as Date.prototype.toISOString splits them
DAY_MS == 24 * 60 * 60 * 1000

\* The instants the clock visits while requests are served: the start, a
\* second later, and the same two instants a day later, when tokens and
\* blacklist rows written at the start reach the end of their lives.
AuthClockPoints == {0, 1000, DAY_MS, DAY_MS + 1000}

\* The instants the clock visits in the model: those, the last millisecond
\* of a second, and the last and the second millisecond of a day.
ClockPoints == AuthClockPoints \cup {999, DAY_MS - 1, DAY_MS + 1}

\* Between two clock reads that no await separates the clock may stand still
\* or advance by a millisecond.
SyncRead(t) == {t2 \in ClockPoints : t2 = t \/ t2 = t + 1}

\* Math.floor(Date.now() / 1000)
Seconds(t) == t \div 1000

\* Date.prototype.toISOString: "YYYY-MM-DDTHH:mm:ss.sssZ", kept as the date
\* part and the time-of-day part (both fixed width in the real string)
ToISOString(t) == [date |-> t \div DAY_MS, time |-> t % DAY_MS]

\* SQLite's comparison of two ISO strings: text comparison, left to right
IsoLess(a, b) == a.date < b.date \/ (a.date = b.date /\ a.time < b.time)

-----------------------------------------------------------------------------
(* Encodings of the token service *)

\* env.JWT_SECRET, and a secret that is not the deployment's
JWT_SECRET == "k1"
OTHER_SECRET == "k0"

\* env.GOOGLE_CLIENT_ID
GOOGLE_CLIENT_ID == "client"

\* What Google's tokeninfo endpoint answers for the ID tokens of the model:
\* response.ok, and the aud, sub, email and name of the JSON body
Assertions ==
    {[ok |-> TRUE, aud |-> "client", sub |-> "g1", email |-> "a@x", name |-> "Ann"],
     [ok |-> TRUE, aud |-> "other", sub |-> "g1", email |-> "a@x", name |-> "Ann"],
     [ok |-> FALSE, aud |-> "", sub |-> "", email |-> "", name |-> ""]}

\* the values crypto.randomUUID() returns in the model
UUIDs == {"u1", "u2"}

\* crypto.randomUUID(): an id no row has yet; ids are interchangeable, so the
\* model takes one of the unused ones
randomUUID(rows) == CHOOSE u \in UUIDs : u \notin {r.id : r \in rows}

\* crypto.randomUUID() in the i-th of the calls that overlap: no two calls
\* return the same id
TaskUUID(i) == "u" \o ToString(i)

\* the identities generateJWT is applied to on its own
Identities ==
    {[id |-> "u1", email |-> "a@x", name |-> "Ann"],
     [id |-> "u2", email |-> "b@x", name |-> "Bob"]}

\* the numbers a token payload of the model can carry
PayloadNumbers ==
    {Seconds(t) : t \in ClockPoints} \cup {Seconds(t) + TOKEN_LIFETIME_S : t \in ClockPoints}

NoPayload == [userId |-> "", email |-> "", name |-> "", iat |-> -1, exp |-> -1]

\* JSON.stringify(payload): the values in the order of the object literal
JSONStringify(p) == <<p.userId, p.email, p.name, ToString(p.iat), ToString(p.exp)>>

\* JSON.stringify(header) for { alg: 'HS256', typ: 'JWT' }
HeaderJSON == <<"HS256", "JWT">>

ParseNumber(sym) ==
    IF \E n \in PayloadNumbers : ToString(n) = sym
    THEN CHOOSE n \in PayloadNumbers : ToString(n) = sym
    ELSE -1

\* JSON.parse of a payload string: ok is FALSE where JSON.parse throws
JSONParse(s) ==
    IF Len(s) = 5 /\ ParseNumber(s[4]) >= 0 /\ ParseNumber(s[5]) >= 0
    THEN [ok |-> TRUE,
          value |-> [userId |-> s[1], email |-> s[2], name |-> s[3],
                     iat |-> ParseNumber(s[4]), exp |-> ParseNumber(s[5])]]
    ELSE [ok |-> FALSE, value |-> NoPayload]

\* the symbols that occur in strings before encoding
PlainSymbols ==
    {"HS256", "JWT"} \cup UUIDs \cup {TaskUUID(i) : i \in 1..MaxTasks}
    \cup {a.email : a \in Assertions} \cup {a.name : a \in Assertions}
    \cup {i.id : i \in Identities} \cup {i.email : i \in Identities}
    \cup {i.name : i \in Identities} \cup {ToString(n) : n \in PayloadNumbers}

\* one unit of base64 output for one unit of input
B64Unit(c) == "b(" \o c \o ")"

\* base64Encode: btoa(unescape(encodeURIComponent(str)))
base64Encode(str) == [i \in 1..Len(str) |-> B64Unit(str[i])]

\* base64Decode: decodeURIComponent(escape(atob(str))); ok is FALSE where
\* atob throws on a unit that is no base64 output
base64Decode(str) ==
    IF \A i \in 1..Len(str) : \E c \in PlainSymbols : B64Unit(c) = str[i]
    THEN [ok |-> TRUE,
          value |-> [i \in 1..Len(str) |-> CHOOSE c \in PlainSymbols : B64Unit(c) = str[i]]]
    ELSE [ok |-> FALSE, value |-> <<>>]

\* createHMAC: HMAC-SHA256 of data under secret, base64 encoded.  The MAC is
\* idealised as collision free: one unit determined by the secret and by every
\* unit of the data.
createHMAC(data, secret) == <<B64Unit("hmac(" \o secret \o ":" \o Flat(data) \o ")")>>

\* createHash('sha256').update(token).digest('hex'), idealised as collision free
Sha256Hex(token) == "sha256(" \o Flat(token) \o ")"

\* generateJWT, with the two Date.now() reads t1 (iat) and t2 (exp)
generateJWT(user, secret, t1, t2) ==
    LET payload == [userId |-> user.id, email |-> user.email, name |-> user.name,
                    iat |-> Seconds(t1), exp |-> Seconds(t2) + TOKEN_LIFETIME_S]
        encodedHeader == base64Encode(HeaderJSON)
        encodedPayload == base64Encode(JSONStringify(payload))
        signature == createHMAC(JoinDot(encodedHeader, encodedPayload), secret)
    IN JoinDot(JoinDot(encodedHeader, encodedPayload), signature)

VerifyOk(p) == [ok |-> TRUE, error |-> "", payload |-> p]
VerifyErr(msg) == [ok |-> FALSE, error |-> msg, payload |-> NoPayload]

\* verifyJWT without the comparison of the signature
MutVerifyJWT_NoSignatureCheck(token, secret, t) ==
    LET parts == Split(token, Dot)
    IN IF Len(parts) # 3 THEN VerifyErr("Invalid token format")
       ELSE LET decoded == base64Decode(parts[2])
                parsed == JSONParse(decoded.value)
            IN IF ~decoded.ok THEN VerifyErr("InvalidCharacterError")
               ELSE IF ~parsed.ok THEN VerifyErr("SyntaxError")
               ELSE IF parsed.value.exp < Seconds(t) THEN VerifyErr("Token expired")
               ELSE VerifyOk(parsed.value)

\* verifyJWT; t is the clock when the expiry check runs
verifyJWT(token, secret, t) ==
    LET parts == Split(token, Dot)
    IN IF Len(parts) # 3 THEN VerifyErr("Invalid token format")
       ELSE LET encodedHeader == parts[1]
                encodedPayload == parts[2]
                signature == parts[3]
                expectedSignature == createHMAC(JoinDot(encodedHeader, encodedPayload), secret)
                decoded == base64Decode(encodedPayload)
                parsed == JSONParse(decoded.value)
            IN IF signature # expectedSignature THEN VerifyErr("Invalid token signature")
               ELSE IF ~decoded.ok THEN VerifyErr("InvalidCharacterError")
               ELSE IF ~parsed.ok THEN VerifyErr("SyntaxError")
               ELSE IF parsed.value.exp < Seconds(t) THEN VerifyErr("Token expired")
               ELSE VerifyOk(parsed.value)

-----------------------------------------------------------------------------
(* The backing store *)

\* How a prepared statement can end: it resolves without error, it resolves
\* to { error }, or its promise rejects.
StoreOutcomes == {"ok", "error", "throw"}

NoBlacklistRow == [token_hash |-> "", user_id |-> "", expires_at |-> ToISOString(0)]

\* SELECT * FROM token_blacklist WHERE token_hash = ? AND expires_at > ?
SelectBlacklist(rows, tokenHash, ts) ==
    {r \in rows : r.token_hash = tokenHash /\ IsoLess(ts, r.expires_at)}

\* DELETE FROM token_blacklist WHERE expires_at < ?
DeleteExpired(rows, ts) == {r \in rows : ~IsoLess(r.expires_at, ts)}

\* SELECT * FROM users WHERE google_id = ?
SelectUser(rows, googleId) == {r \in rows : r.google_id = googleId}

-----------------------------------------------------------------------------
(* Sign-in: handleGoogleSignIn, authenticateWithGoogle *)

\* the error verifyGoogleToken throws for a tokeninfo answer, "" for none
MutVerifyGoogleToken_NoAudienceCheck(a, clientId) ==
    IF ~a.ok THEN "Invalid Google ID token" ELSE ""

verifyGoogleToken(a, clientId) ==
    IF ~a.ok THEN "Invalid Google ID token"
    ELSE IF a.aud # clientId THEN "Invalid client ID"
    ELSE ""

\* the row findOrCreateUser builds for a new user; t1 and t2 are its two
\* new Date() reads
NewUser(a, uuid, t1, t2) ==
    [id |-> uuid, google_id |-> a.sub, email |-> a.email, name |-> a.name,
     created_at |-> ToISOString(t1), last_login_at |-> ToISOString(t2)]

\* isNewUser of the AuthResponse
IsNewUser(user) == user.created_at = user.last_login_at

\* a response of the token service's endpoints; aud is the audience of the
\* assertion a sign-in presented
NoResp ==
    [kind |-> "none", status |-> 0, error |-> "", message |-> "",
     authorization |-> <<>>, token |-> <<>>, authed |-> FALSE, authError |-> "",
     user |-> NoPayload, written |-> NoBlacklistRow, aud |-> "",
     lookupFailed |-> FALSE]

IdleReq ==
    [kind |-> "none", pc |-> "idle", authorization |-> <<>>, token |-> <<>>,
     t0 |-> 0, user |-> NoPayload, insert |-> NoBlacklistRow,
     lookupFailed |-> FALSE]

\* the 200 answer of handleGoogleSignIn
SignInResponse(entry) ==
    [NoResp EXCEPT !.kind = "signin", !.status = 200, !.token = entry.token]

\* createErrorResponse(message, status, details)
createErrorResponse(kind, message, status, details) ==
    [NoResp EXCEPT !.kind = kind, !.status = status, !.error = message,
                   !.message = details]

\* A sign-in that returns a token.  The sign-in runs without interleaving of
\* other requests; its clock reads are now, t2, t3, t4 in program order.
SignInOk(a, t2, t3, t4) ==
    /\ req.pc = "idle"
    /\ ops < MaxOps
    /\ ops' = ops + 1
    /\ verifyGoogleToken(a, GOOGLE_CLIENT_ID) = ""
    /\ LET existing == SelectUser(users, a.sub)
       IN IF existing # {}
          THEN \* existing user: UPDATE last_login_at (an error is only logged),
               \* and the row as it was read is returned
               \E row \in existing, upd \in {"ok", "error"} :
                 LET entry == [token |-> generateJWT(row, JWT_SECRET, t3, t4),
                               user |-> row, isNewUser |-> IsNewUser(row)]
                 IN /\ t2 = now
                    /\ users' = IF upd = "ok"
                                THEN (users \ {row}) \cup
                                     {[row EXCEPT !.last_login_at = ToISOString(now)]}
                                ELSE users
                    /\ issued' = issued \cup {entry}
                    /\ resp' = [SignInResponse(entry) EXCEPT !.aud = a.aud]
          ELSE \* new user: the INSERT succeeded
               /\ {r.id : r \in users} # UUIDs
               /\ LET row == NewUser(a, randomUUID(users), now, t2)
                      entry == [token |-> generateJWT(row, JWT_SECRET, t3, t4),
                                user |-> row, isNewUser |-> IsNewUser(row)]
                  IN /\ users' = users \cup {row}
                     /\ issued' = issued \cup {entry}
                     /\ resp' = [SignInResponse(entry) EXCEPT !.aud = a.aud]
    /\ now' = t4
    /\ UNCHANGED <<blacklist, req, cleanups>>

\* A sign-in that answers 401 'Authentication failed': the assertion is
\* rejected, or the SELECT, the UPDATE or the INSERT did not complete.
\* Nothing is written.
SignInFails(a, outcome) ==
    /\ req.pc = "idle"
    /\ LET e == verifyGoogleToken(a, GOOGLE_CLIENT_ID)
       IN /\ (e = "") => (outcome # "ok")
          /\ resp' = [createErrorResponse("signin", "Authentication failed", 401,
                                          "Failed to authenticate with Google")
                       EXCEPT !.aud = a.aud]
    /\ UNCHANGED <<now, users, blacklist, issued, req, cleanups, ops>>

\* A sign-in whose body carries no idToken is answered 400
SignInMissingIdToken ==
    /\ req.pc = "idle"
    /\ resp' = createErrorResponse("signin", "Missing ID token", 400, "")
    /\ UNCHANGED <<now, users, blacklist, issued, req, cleanups, ops>>

handleGoogleSignIn ==
    \/ SignInMissingIdToken
    \/ \E a \in Assertions :
         \E t2 \in SyncRead(now) : \E t3 \in SyncRead(t2) : \E t4 \in SyncRead(t3) :
           SignInOk(a, t2, t3, t4)
    \/ \E a \in Assertions, outcome \in StoreOutcomes : SignInFails(a, outcome)

-----------------------------------------------------------------------------
(* Authenticated endpoints: handleLogout, handleVerifyToken, and the entry   *)
(* of handleAnalysisRequest (requireAuth)                                    *)

\* a token with the header and payload of tok, signed under another secret
Forge(tok) ==
    LET parts == Split(tok, Dot)
        signed == JoinDot(parts[1], parts[2])
    IN JoinDot(signed, createHMAC(signed, OTHER_SECRET))

\* The Authorization header values the clients of the model send: none, a
\* malformed credential, and for every issued token: the token with the
\* scheme prefix, the bare token, and a forgery of it.
Headers ==
    {<<>>, BearerPrefix \o <<"x">>}
    \cup UNION {{BearerPrefix \o e.token, e.token, BearerPrefix \o Forge(e.token)} :
                e \in issued}

Kinds == {"logout", "verify", "analyze"}

\* the message of the error extractUserFromToken's catch block throws
OpaqueAuthError == "Authentication failed: Invalid token"

\* The answer of each endpoint when extractUserFromToken rejects with msg
AuthFailureResponse(r, msg) ==
    LET base == [NoResp EXCEPT !.kind = r.kind, !.status = 401,
                               !.authorization = r.authorization,
                               !.token = r.token, !.authError = msg]
    IN CASE r.kind = "logout" ->
              [base EXCEPT !.error = "Logout failed", !.message = msg]
         [] r.kind = "verify" ->
              [base EXCEPT !.error = "Invalid token", !.message = msg]
         [] OTHER ->
              \* requireAuth rethrows, createAuthErrorResponse answers
              [base EXCEPT !.error = "Authentication required: Invalid token"]

\* extractUserFromToken up to its first suspension, at time t0 = now: the
\* token is cut out of the header, verifyJWT is started (and not awaited), and
\* checkTokenBlacklist has bound its query to new Date().toISOString()
StartAuth(kind, authorization) ==
    [IdleReq EXCEPT !.kind = kind, !.pc = "auth", !.authorization = authorization,
                    !.token = Replace(authorization, BearerPrefix, <<>>),
                    !.t0 = now]

\* whether requireAuth lets the header through to extractUserFromToken
RequireAuthFormat(authorization) == StartsWith(authorization, BearerPrefix)

\* A request arrives at an endpoint
Receive(kind, authorization) ==
    /\ req.pc = "idle"
    /\ (kind = "logout") => (ops < MaxOps)
    /\ ops' = IF kind = "logout" THEN ops + 1 ELSE ops
    /\ IF authorization = <<>>
       THEN /\ resp' = [createErrorResponse(kind,
                          IF kind = "analyze"
                          THEN "Authentication required: Missing authorization header"
                          ELSE "Missing authorization header", 401, "")
                        EXCEPT !.authorization = authorization]
            /\ req' = req
       ELSE IF kind = "analyze" /\ ~RequireAuthFormat(authorization)
       THEN /\ resp' = [createErrorResponse(kind,
                          "Authentication required: Invalid authorization format", 401, "")
                        EXCEPT !.authorization = authorization]
            /\ req' = req
       ELSE /\ req' = StartAuth(kind, authorization)
            /\ resp' = NoResp
    /\ UNCHANGED <<now, users, blacklist, issued, cleanups>>

\* whether checkTokenBlacklist throws, given how its SELECT ended
MutCheckTokenBlacklistThrows_FailOpen(rows, token, ts, outcome) ==
    /\ outcome = "ok"
    /\ SelectBlacklist(rows, Sha256Hex(token), ts) # {}

checkTokenBlacklistThrows(rows, token, ts, outcome) ==
    \/ outcome # "ok"
    \/ SelectBlacklist(rows, Sha256Hex(token), ts) # {}

\* The SELECT of checkTokenBlacklist completes.  If checkTokenBlacklist
\* throws, the catch block of extractUserFromToken throws the opaque error.
BlacklistSettles(outcome) ==
    /\ req.pc = "auth"
    /\ IF checkTokenBlacklistThrows(blacklist, req.token, ToISOString(req.t0), outcome)
       THEN /\ resp' = [AuthFailureResponse(req, OpaqueAuthError)
                        EXCEPT !.lookupFailed = (outcome # "ok")]
            /\ req' = IdleReq
       ELSE /\ req' = [req EXCEPT !.pc = "authReturn",
                                  !.lookupFailed = (outcome # "ok")]
            /\ resp' = NoResp
    /\ UNCHANGED <<now, users, blacklist, issued, cleanups, ops>>

\* the row addTokenToBlacklist inserts at time t
BlacklistRow(token, userId, t) ==
    [token_hash |-> Sha256Hex(token), user_id |-> userId,
     expires_at |-> ToISOString(t + BLACKLIST_TTL_MS)]

\* the token handleLogout hands to addTokenToBlacklist
LogoutToken(authorization) == Substring(authorization, 7)

\* What the caller of extractUserFromToken gets once checkTokenBlacklist has
\* passed: the promise of verifyJWT, returned from inside the try block
\* without await, so its rejection goes to the caller as verifyJWT threw it
extractUserFromTokenResult(res) == res

\* extractUserFromToken's promise settles with that of verifyJWT, whose
\* expiry check ran at tv, between the start of the call and now.  The
\* endpoint goes on: verify answers, the analysis request passes requireAuth,
\* logout calls addTokenToBlacklist.
AuthReturns(tv) ==
    /\ req.pc = "authReturn"
    /\ req.t0 <= tv /\ tv <= now
    /\ LET res == extractUserFromTokenResult(verifyJWT(req.token, JWT_SECRET, tv))
           ok == [NoResp EXCEPT !.kind = req.kind, !.authorization = req.authorization,
                                !.token = req.token, !.authed = TRUE,
                                !.user = res.payload]
       IN IF ~res.ok
          THEN /\ resp' = AuthFailureResponse(req, res.error)
               /\ req' = IdleReq
          ELSE CASE req.kind = "verify" ->
                      /\ resp' = [ok EXCEPT !.status = 200]
                      /\ req' = IdleReq
                 [] req.kind = "analyze" ->
                      \* requireAuth returned the user: the request goes on
                      /\ resp' = ok
                      /\ req' = IdleReq
                 [] OTHER ->
                      /\ req' = [req EXCEPT !.pc = "revoke", !.user = res.payload,
                                   !.insert = BlacklistRow(LogoutToken(req.authorization),
                                                           res.payload.userId, now)]
                      /\ resp' = NoResp
    /\ UNCHANGED <<now, users, blacklist, issued, cleanups, ops>>

\* The INSERT of addTokenToBlacklist completes; on success handleLogout
\* starts cleanupExpiredTokens without awaiting it and answers 200.
\* token_hash is UNIQUE: the INSERT fails when a row has the fingerprint.
RevokeSettles(outcome) ==
    /\ req.pc = "revoke"
    /\ (outcome = "ok") =>
         ~\E r \in blacklist : r.token_hash = req.insert.token_hash
    /\ LET base == [NoResp EXCEPT !.kind = "logout", !.authorization = req.authorization,
                                  !.token = req.token, !.authed = TRUE,
                                  !.user = req.user]
       IN IF outcome = "ok"
          THEN /\ blacklist' = blacklist \cup {req.insert}
               /\ cleanups' = cleanups \cup {ToISOString(now)}
               /\ resp' = [base EXCEPT !.status = 200,
                                       !.message = "Successfully logged out",
                                       !.written = req.insert]
          ELSE /\ resp' = [base EXCEPT !.status = 401, !.error = "Logout failed",
                                       !.message = IF outcome = "error"
                                                   THEN "Failed to blacklist token"
                                                   ELSE "store exception"]
               /\ UNCHANGED <<blacklist, cleanups>>
    /\ req' = IdleReq
    /\ UNCHANGED <<now, users, issued, ops>>

\* cleanupExpiredTokens is called: its DELETE is bound to the current time
CleanupCall ==
    /\ ops < MaxOps
    /\ ops' = ops + 1
    /\ cleanups' = cleanups \cup {ToISOString(now)}
    /\ resp' = NoResp
    /\ UNCHANGED <<now, users, blacklist, issued, req>>

\* The DELETE of a cleanupExpiredTokens call completes; its errors are logged
CleanupSettles(ts, outcome) ==
    /\ ts \in cleanups
    /\ cleanups' = cleanups \ {ts}
    /\ blacklist' = IF outcome = "ok" THEN DeleteExpired(blacklist, ts) ELSE blacklist
    /\ resp' = NoResp
    /\ UNCHANGED <<now, users, issued, req, ops>>

\* The clock advances
Tick(t) ==
    /\ t > now
    /\ now' = t
    /\ resp' = NoResp
    /\ UNCHANGED <<users, blacklist, issued, req, cleanups, ops>>

-----------------------------------------------------------------------------
(* The rate limiter at rest: no checkRateLimit call in flight or returned *)

IdleCall ==
    [pc |-> "idle", userId |-> "", today |-> 0, currentCount |-> 0,
     read |-> "none", update |-> "none", insert |-> "none"]

\* a RateLimitResult; -1 stands for a field that is absent
NoResult ==
    [kind |-> "none", userId |-> "", allowed |-> FALSE, currentCount |-> -1,
     retryAfter |-> -1, message |-> "", raised |-> FALSE,
     read |-> "none", update |-> "none", insert |-> "none"]

NoCalls == [day |-> -1, k |-> 0, clean |-> TRUE, fails |-> 0]

\* no calls run concurrently
NoTasks == <<>>

-----------------------------------------------------------------------------
(* The analysis endpoint at rest: no request in flight or answered *)

\* a timestamp field that is not there
NoTime == [date |-> -1, time |-> -1]

NoAnalysisResult ==
    [classification |-> "", confidenceLevel |-> "", confidenceScore |-> -1,
     keyIndicators |-> <<>>, reasoning |-> "",
     metadata |-> [wordCount |-> -1, provider |-> "", analysisTime |-> -1,
                   cacheCreatedAt |-> NoTime]]

\* an AnalysisRequest body; parses is FALSE where request.json() throws
NoRequestData ==
    [parses |-> FALSE, url |-> <<>>, text |-> <<>>, mode |-> "", lastModified |-> ""]

NoCacheEntry ==
    [url_hash |-> "", content_hash |-> "", last_modified |-> [text |-> "", iso |-> NoTime],
     full_url |-> <<>>, domain |-> <<>>, mode |-> "",
     result |-> [classification |-> "", confidence_level |-> "", confidence_score |-> -1,
                 key_indicators |-> <<>>, reasoning |-> "",
                 metadata |-> [word_count |-> -1, provider |-> "", analysis_time |-> -1]],
     created_at |-> NoTime]

IdleAnalysis ==
    [pc |-> "idle", userId |-> "", data |-> NoRequestData, valid |-> FALSE,
     cacheKey |-> <<>>,
     startTime |-> 0, calls |-> <<>>, lookups |-> 0, rateChecks |-> 0,
     quota |-> [day |-> -1, count |-> -1],
     rows |-> {}, lookupAt |-> -1, lookup |-> "", expired |-> NoCacheEntry,
     evict |-> "", result |-> NoAnalysisResult, entry |-> NoCacheEntry]

\* a response of the analysis endpoint, with what the request did; retryAfter
\* -1 stands for a body without that field
NoAnalysisResponse ==
    [kind |-> "none", status |-> 0, error |-> "", message |-> "", retryAfter |-> -1,
     body |-> NoAnalysisResult, cacheStatus |-> "", userId |-> "",
     data |-> NoRequestData, cacheKey |-> <<>>, authed |-> FALSE, valid |-> FALSE,
     denied |-> FALSE, calls |-> <<>>, lookups |-> 0, rateChecks |-> 0,
     quota |-> [day |-> -1, count |-> -1], rows |-> {}, found |-> NoCacheEntry, lookupAt |-> -1, stored |-> FALSE]

\* no pair of requests is given and no cache key derived
NoKeys == [first |-> NoRequestData, second |-> NoRequestData,
           firstKey |-> <<>>, secondKey |-> <<>>]

\* the history of the analysis endpoint: the results stored with the rows of
\* the table, whether every cache statement succeeded, how many failed, how
\* many requests arrived
NoAnalysisLog == [stored |-> {}, clean |-> TRUE, fails |-> 0, n |-> 0]

-----------------------------------------------------------------------------
(* The token service and its endpoints serving requests *)

InitAuth ==
    /\ cache = {}
    /\ an = IdleAnalysis
    /\ anResp = NoAnalysisResponse
    /\ anLog = NoAnalysisLog
    /\ keys = NoKeys
    /\ tasks = NoTasks
    /\ usage = {}
    /\ rl = IdleCall
    /\ rlResp = NoResult
    /\ rlLog = NoCalls
    /\ tz = 0
    /\ now = 0
    /\ users = {}
    /\ blacklist = {}
    /\ issued = {}
    /\ req = IdleReq
    /\ cleanups = {}
    /\ resp = NoResp
    /\ ops = 0

NextAuth ==
    \/ handleGoogleSignIn /\ UNCHANGED <<rateVars, analysisVars>>
    \/ \E kind \in Kinds, h \in Headers : Receive(kind, h) /\ UNCHANGED <<rateVars, analysisVars>>
    \/ \E outcome \in StoreOutcomes : BlacklistSettles(outcome) /\ UNCHANGED <<rateVars, analysisVars>>
    \/ \E tv \in AuthClockPoints : AuthReturns(tv) /\ UNCHANGED <<rateVars, analysisVars>>
    \/ \E outcome \in StoreOutcomes : RevokeSettles(outcome) /\ UNCHANGED <<rateVars, analysisVars>>
    \/ CleanupCall /\ UNCHANGED <<rateVars, analysisVars>>
    \/ \E ts \in cleanups, outcome \in StoreOutcomes :
         CleanupSettles(ts, outcome) /\ UNCHANGED <<rateVars, analysisVars>>
    \/ \E t \in AuthClockPoints : Tick(t) /\ UNCHANGED <<rateVars, analysisVars>>

SpecAuth == InitAuth /\ [][NextAuth]_vars

\* The token service after Ann signed in at instant 0, logged out with the
\* token of that sign-in at once, and the cleanup of that logout has run: her
\* identity row, her token, and the revocation record of the token
RevokedAtStart ==
    LET row == NewUser([sub |-> "g1", email |-> "a@x", name |-> "Ann"], "u1", 0, 0)
        token == generateJWT(row, JWT_SECRET, 0, 0)
    IN [row |-> row, token |-> token,
        entry |-> [token |-> token, user |-> row, isNewUser |-> IsNewUser(row)],
        record |-> BlacklistRow(token, row.id, 0)]

InitRevoked ==
    /\ cache = {}
    /\ an = IdleAnalysis
    /\ anResp = NoAnalysisResponse
    /\ anLog = NoAnalysisLog
    /\ keys = NoKeys
    /\ tasks = NoTasks
    /\ usage = {}
    /\ rl = IdleCall
    /\ rlResp = NoResult
    /\ rlLog = NoCalls
    /\ tz = 0
    /\ now = 0
    /\ users = {RevokedAtStart.row}
    /\ blacklist = {RevokedAtStart.record}
    /\ issued = {RevokedAtStart.entry}
    /\ req = IdleReq
    /\ cleanups = {}
    /\ resp = NoResp
    /\ ops = 0

SpecRevoked == InitRevoked /\ [][NextAuth]_vars

-----------------------------------------------------------------------------
(* The token functions on their own: generateJWT and verifyJWT applied to    *)
(* identities, instants and altered tokens drawn from bounded sets           *)

\* tok with the unit at position i replaced by c
Mutate(tok, i, c) == [tok EXCEPT ![i] = c]

\* the positions of the payload part and of the signature part of a token
PayloadPositions(tok) ==
    LET parts == Split(tok, Dot)
    IN (Len(parts[1]) + 2)..(Len(parts[1]) + 1 + Len(parts[2]))

SignaturePositions(tok) ==
    LET parts == Split(tok, Dot)
    IN (Len(parts[1]) + Len(parts[2]) + 3)..Len(tok)

\* the units an altered token gets: the separator, a unit that is no base64
\* output, another subject and a later expiry
MutationUnits == {Dot, "x", B64Unit("u2"), B64Unit(ToString(2 * TOKEN_LIFETIME_S))}

\* the tokens that differ from tok in exactly one unit of payload or signature
OneUnitChanges(tok) ==
    {Mutate(tok, i, c) : i \in PayloadPositions(tok) \cup SignaturePositions(tok),
                         c \in MutationUnits} \ {tok}

\* generateJWT is applied to an identity; the clock may advance by a
\* millisecond between its two reads
IssueToken(user, t2) ==
    /\ issued' = {[token |-> generateJWT(user, JWT_SECRET, now, t2),
                   user |-> user, isNewUser |-> FALSE]}
    /\ now' = t2
    /\ resp' = NoResp
    /\ UNCHANGED <<users, blacklist, req, cleanups, ops>>

\* the outcome of verifyJWT on a token, as a response
VerifyResult(tok, res) ==
    [NoResp EXCEPT !.kind = "verifyJWT", !.token = tok, !.authed = res.ok,
                   !.authError = res.error, !.user = res.payload]

\* verifyJWT is applied to a token
VerifyToken(tok) ==
    /\ resp' = VerifyResult(tok, verifyJWT(tok, JWT_SECRET, now))
    /\ UNCHANGED <<now, users, blacklist, issued, req, cleanups, ops>>

InitToken ==
    /\ cache = {}
    /\ an = IdleAnalysis
    /\ anResp = NoAnalysisResponse
    /\ anLog = NoAnalysisLog
    /\ keys = NoKeys
    /\ tasks = NoTasks
    /\ usage = {}
    /\ rl = IdleCall
    /\ rlResp = NoResult
    /\ rlLog = NoCalls
    /\ tz = 0
    /\ now \in ClockPoints
    /\ users = {}
    /\ blacklist = {}
    /\ issued = {}
    /\ req = IdleReq
    /\ cleanups = {}
    /\ resp = NoResp
    /\ ops = 0

NextToken ==
    \/ \E user \in Identities, t2 \in SyncRead(now) :
         IssueToken(user, t2) /\ UNCHANGED <<rateVars, analysisVars>>
    \/ \E e \in issued : VerifyToken(e.token) /\ UNCHANGED <<rateVars, analysisVars>>
    \/ \E e \in issued : VerifyToken(Forge(e.token)) /\ UNCHANGED <<rateVars, analysisVars>>
    \/ \E e \in issued : \E tok \in OneUnitChanges(e.token) :
         VerifyToken(tok) /\ UNCHANGED <<rateVars, analysisVars>>
    \/ \E t \in ClockPoints : Tick(t) /\ UNCHANGED <<rateVars, analysisVars>>

SpecToken == InitToken /\ [][NextToken]_vars

-----------------------------------------------------------------------------
(* Properties of the token service *)

\* the response reports that extractUserFromToken returned claims to an
\* endpoint that only reads with them
AuthenticatedRead == resp.kind \in {"verify", "analyze"} /\ resp.authed

\* C1: once addTokenToBlacklist has completed for a token, no later
\* extractUserFromToken of that token succeeds.  A row of token_blacklist
\* with the token's fingerprint shows that the revocation completed.
C1_RevokedTokenNeverAuthenticates ==
    /\ AuthenticatedRead =>
         ~\E r \in blacklist : r.token_hash = Sha256Hex(resp.token)
    /\ (req.pc = "revoke") =>
         ~\E r \in blacklist : r.token_hash = Sha256Hex(req.token)

\* C2: when handleLogout answers 200, the row it wrote carries the
\* fingerprint of the token extractUserFromToken derived from the header.
C2_LogoutRevokesAuthenticatedToken ==
    (resp.kind = "logout" /\ resp.status = 200) =>
        resp.written.token_hash = Sha256Hex(resp.token)

\* C4: every failure of extractUserFromToken reaches the caller as the one
\* opaque error, and the 401 body of the verify endpoint carries that message.
C4_AuthFailureIsOpaque ==
    (resp.kind \in Kinds /\ resp.authError # "") =>
        /\ resp.authError = OpaqueAuthError
        /\ (resp.kind = "verify") => (resp.message = OpaqueAuthError)

\* C5: no endpoint authenticates a header that does not start with the
\* scheme prefix.
C5_SchemePrefixRequired ==
    /\ (resp.kind \in Kinds /\ resp.authed) =>
         StartsWith(resp.authorization, BearerPrefix)
    /\ (req.pc = "revoke") => StartsWith(req.authorization, BearerPrefix)

\* C6: a 200 answer of handleLogout implies that token_blacklist holds a row
\* for the token the request presented and was authenticated with.
C6_LogoutOkImpliesTokenRevoked ==
    (resp.kind = "logout" /\ resp.status = 200) =>
        \E r \in blacklist : r.token_hash = Sha256Hex(resp.token)

\* the part of C6 that does not depend on which string is hashed: a logout
\* whose INSERT did not succeed is answered with a failure, and a 200 answer
\* comes with the row the INSERT wrote
LogoutFailClosed ==
    (resp.kind = "logout" /\ resp.status = 200) => resp.written \in blacklist

-----------------------------------------------------------------------------
(* Properties of generateJWT and verifyJWT *)

\* the response is verifyJWT's answer for a token generateJWT returned
VerifiedIssued(e) ==
    /\ resp.kind = "verifyJWT"
    /\ resp.token = e.token
    /\ resp.authed

\* the response is verifyJWT's answer for a one-unit change of an issued token
VerifiedChanged == 
    /\ resp.kind = "verifyJWT"
    /\ \E e \in issued : resp.token \in OneUnitChanges(e.token)

\* the unit in which tok differs from the issued token it was made from
ChangedUnit(tok) ==
    LET e == CHOOSE x \in issued : tok \in OneUnitChanges(x.token)
        i == CHOOSE k \in 1..Len(tok) : tok[k] # e.token[k]
    IN tok[i]

\* C3 as stated: every one-unit change of the payload or the signature of an
\* issued token is rejected by verifyJWT with the signature failure.
C3_ChangedTokenFailsSignature ==
    VerifiedChanged =>
        /\ ~resp.authed
        /\ resp.authError = "Invalid token signature"

\* C3 amended: verifyJWT yields claims only for a token whose signature part
\* is the MAC of its header and payload under the current secret; every
\* one-unit change of payload or signature is rejected, with the signature
\* failure, or with the format failure when the new unit is the separator.
C3_ChangedTokenRejected ==
    /\ (resp.kind = "verifyJWT" /\ resp.authed) =>
         LET parts == Split(resp.token, Dot)
         IN /\ Len(parts) = 3
            /\ parts[3] = createHMAC(JoinDot(parts[1], parts[2]), JWT_SECRET)
    /\ VerifiedChanged =>
         /\ ~resp.authed
         /\ resp.user = NoPayload
         /\ resp.authError = IF ChangedUnit(resp.token) = Dot
                             THEN "Invalid token format"
                             ELSE "Invalid token signature"

\* C3 witness: verifyJWT has rejected, for its signature, an issued token
\* whose payload was changed in one unit so that it decodes to another subject
C3_Witness ==
    /\ VerifiedChanged
    /\ ChangedUnit(resp.token) = B64Unit("u2")
    /\ resp.authError = "Invalid token signature"

\* C7: verifyJWT of a token generateJWT returned yields the identity's id,
\* email and name, and exp - iat is exactly the lifetime, with iat < exp.
C7_VerifyIssueRoundTrip ==
    \A e \in issued : VerifiedIssued(e) =>
        /\ resp.user.userId = e.user.id
        /\ resp.user.email = e.user.email
        /\ resp.user.name = e.user.name
        /\ resp.user.exp - resp.user.iat = TOKEN_LIFETIME_S
        /\ resp.user.iat < resp.user.exp

\* C8: the lifetime of an issued token is 365 days, in seconds.
C8_LifetimeIsOneYear ==
    \A e \in issued : VerifiedIssued(e) =>
        resp.user.exp - resp.user.iat = 365 * 24 * 60 * 60

-----------------------------------------------------------------------------
(* The rate limiter: RateLimitService.checkRateLimit and incrementUsage *)

\* DAILY_LIMIT
DAILY_LIMIT == 50

\* the identity whose calls the model follows, and an identity that has a
\* counter row of its own
Caller == "u1"
OtherUser == "u2"

\* what getTimezoneOffset() returns on the hosts of the model, in minutes
TzOffsets == {0, 300, -60}

\* the instants the clock visits while the rate limiter runs
RateClockPoints == {0, DAY_MS - 1, DAY_MS}

\* new Date().toISOString().split('T')[0]
Today(t) == ToISOString(t).date

\* Math.ceil(x / d)
Ceil(x, d) == -((-x) \div d)

\* tomorrow.getTime() for tomorrow = new Date() read at t, after
\* setDate(getDate() + 1) and setHours(0, 0, 0, 0): the next local midnight
NextLocalMidnight(t, offset) ==
    LET local == t - offset * 60 * 1000
    IN ((local \div DAY_MS) + 1) * DAY_MS + offset * 60 * 1000

\* retryAfter, with tomorrow read at t1 and Date.now() at t2
RetryAfter(t1, t2, offset) == Ceil(NextLocalMidnight(t1, offset) - t2, 1000)

\* SELECT daily_count FROM usage_analytics WHERE user_id = ? AND created_at = ?
SelectUsage(rows, userId, date) ==
    {r \in rows : r.user_id = userId /\ r.created_at = date}

\* usage?.daily_count || 0 for the row first() returns
CurrentCount(rows, userId, date) ==
    LET found == SelectUsage(rows, userId, date)
    IN IF found = {} THEN 0 ELSE (CHOOSE r \in found : TRUE).daily_count

\* UPDATE usage_analytics SET daily_count = daily_count + 1
\* WHERE user_id = ? AND created_at = ?
UpdateUsage(rows, userId, date) ==
    {IF r.user_id = userId /\ r.created_at = date
     THEN [r EXCEPT !.daily_count = r.daily_count + 1] ELSE r : r \in rows}

\* INSERT INTO usage_analytics (user_id, daily_count, created_at) VALUES (?, 1, ?)
InsertUsage(rows, userId, date) ==
    rows \cup {[user_id |-> userId, daily_count |-> 1, created_at |-> date]}

\* the result of a call, with how its statements ended
Result(call, allowed, currentCount, retryAfter, message) ==
    [kind |-> "rate", userId |-> call.userId, allowed |-> allowed,
     currentCount |-> currentCount, retryAfter |-> retryAfter, message |-> message,
     raised |-> FALSE, read |-> call.read, update |-> call.update,
     insert |-> call.insert]

\* what checkRateLimit returns when its SELECT resolved to { error } or
\* its promise rejected: { allowed: true }
MutResultOnReadFailure_Deny(call) == Result(call, FALSE, -1, -1, "")

ResultOnReadFailure(call) == Result(call, TRUE, -1, -1, "")

\* what checkRateLimit returns after incrementUsageForUser, whatever
\* incrementUsage did: { allowed: true, currentCount: currentCount + 1 }
ResultAfterIncrement(call) == Result(call, TRUE, call.currentCount + 1, -1, "")

\* a statement may fail in a call that has had a failure, or while the
\* run's failing calls are not used up
MayEnd(outcome) ==
    (outcome # "ok") => (rl.update = "error" \/ rlLog.fails < MaxFailedCalls)

LogOutcome(outcome) ==
    IF outcome = "ok" THEN rlLog
    ELSE [rlLog EXCEPT !.clean = FALSE,
            !.fails = IF rl.update = "error" THEN rlLog.fails ELSE rlLog.fails + 1]

\* checkRateLimit is called and runs up to its SELECT
RateCall(userId) ==
    /\ rl.pc = "idle"
    /\ IF userId = ""
       THEN /\ rlResp' = Result([IdleCall EXCEPT !.userId = userId], FALSE, -1, -1,
                                "User ID is required")
            /\ UNCHANGED <<rl, rlLog>>
       ELSE /\ (rlLog.day = Today(now)) => (rlLog.k < MaxCalls)
            /\ rl' = [IdleCall EXCEPT !.pc = "read", !.userId = userId,
                                      !.today = Today(now)]
            /\ rlLog' = IF rlLog.day = Today(now)
                        THEN [rlLog EXCEPT !.k = rlLog.k + 1]
                        ELSE [rlLog EXCEPT !.day = Today(now), !.k = 1,
                                !.clean = (SelectUsage(usage, userId, Today(now)) = {})]
            /\ rlResp' = NoResult
    /\ UNCHANGED <<now, usage, tz>>

\* The SELECT completes
RateRead(outcome, t2) ==
    /\ rl.pc = "read"
    /\ MayEnd(outcome)
    /\ rlLog' = LogOutcome(outcome)
    /\ LET call == [rl EXCEPT !.read = outcome,
                      !.currentCount = CurrentCount(usage, rl.userId, rl.today)]
       IN IF outcome # "ok"
          THEN /\ rlResp' = ResultOnReadFailure([rl EXCEPT !.read = outcome])
               /\ rl' = IdleCall
               /\ now' = now
          ELSE IF call.currentCount >= DAILY_LIMIT
          THEN /\ rlResp' = Result(call, FALSE, call.currentCount,
                                   RetryAfter(now, t2, tz), "Daily limit exceeded")
               /\ rl' = IdleCall
               /\ now' = t2
          ELSE /\ rl' = [call EXCEPT !.pc = "update"]
               /\ rlResp' = NoResult
               /\ now' = now
    /\ UNCHANGED <<usage, tz>>

\* The UPDATE of incrementUsage completes
RateUpdate(outcome) ==
    /\ rl.pc = "update"
    /\ MayEnd(outcome)
    /\ rlLog' = LogOutcome(outcome)
    /\ LET call == [rl EXCEPT !.update = outcome]
       IN CASE outcome = "ok" ->
                 /\ usage' = UpdateUsage(usage, rl.userId, rl.today)
                 /\ rlResp' = ResultAfterIncrement(call)
                 /\ rl' = IdleCall
            [] outcome = "error" ->
                 /\ rl' = [call EXCEPT !.pc = "insert"]
                 /\ rlResp' = NoResult
                 /\ usage' = usage
            [] OTHER ->
                 \* the rejection is caught and logged inside incrementUsage
                 /\ rlResp' = ResultAfterIncrement(call)
                 /\ rl' = IdleCall
                 /\ usage' = usage
    /\ UNCHANGED <<now, tz>>

\* The INSERT of incrementUsage completes.  UNIQUE(user_id, created_at)
\* makes it fail when the row exists.
RateInsert(outcome) ==
    /\ rl.pc = "insert"
    /\ MayEnd(outcome)
    /\ (outcome = "ok") => (SelectUsage(usage, rl.userId, rl.today) = {})
    /\ rlLog' = LogOutcome(outcome)
    /\ usage' = IF outcome = "ok" THEN InsertUsage(usage, rl.userId, rl.today)
                ELSE usage
    /\ rlResp' = ResultAfterIncrement([rl EXCEPT !.insert = outcome])
    /\ rl' = IdleCall
    /\ UNCHANGED <<now, tz>>

\* The clock advances
RateTick(t) ==
    /\ t > now
    /\ now' = t
    /\ rlResp' = NoResult
    /\ UNCHANGED <<usage, rl, rlLog, tz>>

InitRate ==
    /\ cache = {}
    /\ an = IdleAnalysis
    /\ anResp = NoAnalysisResponse
    /\ anLog = NoAnalysisLog
    /\ keys = NoKeys
    /\ tasks = NoTasks
    /\ now = 0
    /\ users = {}
    /\ blacklist = {}
    /\ issued = {}
    /\ req = IdleReq
    /\ cleanups = {}
    /\ resp = NoResp
    /\ ops = 0
    /\ usage = {[user_id |-> OtherUser, daily_count |-> DAILY_LIMIT, created_at |-> 0]}
    /\ rl = IdleCall
    /\ rlResp = NoResult
    /\ rlLog = NoCalls
    /\ tz \in TzOffsets

NextRate ==
    \/ \E userId \in {Caller, ""} : RateCall(userId) /\ UNCHANGED <<authVars, analysisVars>>
    \/ \E outcome \in StoreOutcomes, t2 \in SyncRead(now) :
         RateRead(outcome, t2) /\ UNCHANGED <<authVars, analysisVars>>
    \/ \E outcome \in StoreOutcomes : RateUpdate(outcome) /\ UNCHANGED <<authVars, analysisVars>>
    \/ \E outcome \in StoreOutcomes : RateInsert(outcome) /\ UNCHANGED <<authVars, analysisVars>>
    \/ \E t \in RateClockPoints : RateTick(t) /\ UNCHANGED <<authVars, analysisVars>>

SpecRate == InitRate /\ [][NextRate]_vars

-----------------------------------------------------------------------------
(* Overlapping checkRateLimit calls of one identity on one day.  Each call  *)
(* is suspended at its awaits: the SELECT, the UPDATE and the INSERT of     *)
(* different calls run in any order.                                        *)

Tasks == 1..MaxTasks

\* the history of a run of overlapping calls: the count of the caller's row
\* at the start (-1: no row), calls started, calls answered allowed = true,
\* calls answered allowed = false, statements that failed, INSERTs that the
\* UNIQUE constraint rejected
NoRateHistory ==
    [base |-> -1, started |-> 0, allowed |-> 0, denied |-> 0, fails |-> 0,
     conflicts |-> 0]

\* UNIQUE(user_id, created_at) of usage_analytics rejects the INSERT
MutUsageConflict_Never(rows, userId, date) == FALSE

UsageConflict(rows, userId, date) == SelectUsage(rows, userId, date) # {}

\* if (currentCount >= this.DAILY_LIMIT)
MutAtLimit_OffByOne(currentCount) == currentCount > DAILY_LIMIT

AtLimit(currentCount) == currentCount >= DAILY_LIMIT

\* a statement may fail while the run has had fewer failures than tasks
TaskMayFail(outcome) == (outcome # "ok") => (tasks.log.fails < MaxTasks)

\* the history after a statement ended with outcome and answered calls
\* were counted
Noted(outcome, allowed, denied) ==
    [tasks.log EXCEPT !.fails = IF outcome = "ok" THEN @ ELSE @ + 1,
                      !.allowed = @ + allowed, !.denied = @ + denied]

\* task i calls checkRateLimit(Caller) and runs up to its SELECT
TaskRateCall(i) ==
    /\ tasks.call[i].pc = "idle"
    /\ tasks.log.started < MaxStarted
    /\ tasks' = [tasks EXCEPT !.call[i] = [IdleCall EXCEPT !.pc = "read",
                                             !.userId = Caller, !.today = Today(now)],
                              !.log.started = @ + 1]
    /\ UNCHANGED usage

\* the SELECT of task i completes
TaskRateRead(i, outcome) ==
    /\ tasks.call[i].pc = "read"
    /\ TaskMayFail(outcome)
    /\ LET call == [tasks.call[i] EXCEPT !.read = outcome,
                      !.currentCount = CurrentCount(usage, tasks.call[i].userId,
                                                     tasks.call[i].today)]
       IN IF outcome # "ok"
          THEN \* { allowed: true }
               tasks' = [tasks EXCEPT !.call[i] = IdleCall,
                                      !.log = Noted(outcome, 1, 0)]
          ELSE IF AtLimit(call.currentCount)
          THEN tasks' = [tasks EXCEPT !.call[i] = IdleCall,
                                      !.log = Noted(outcome, 0, 1)]
          ELSE tasks' = [tasks EXCEPT !.call[i] = [call EXCEPT !.pc = "update"]]
    /\ UNCHANGED usage

\* the UPDATE of task i completes
TaskRateUpdate(i, outcome) ==
    /\ tasks.call[i].pc = "update"
    /\ TaskMayFail(outcome)
    /\ LET call == tasks.call[i]
       IN CASE outcome = "ok" ->
                 /\ usage' = UpdateUsage(usage, call.userId, call.today)
                 /\ tasks' = [tasks EXCEPT !.call[i] = IdleCall,
                                           !.log = Noted(outcome, 1, 0)]
            [] outcome = "error" ->
                 /\ usage' = usage
                 /\ tasks' = [tasks EXCEPT !.call[i] = [call EXCEPT !.pc = "insert",
                                                                    !.update = outcome],
                                           !.log = Noted(outcome, 0, 0)]
            [] OTHER ->
                 /\ usage' = usage
                 /\ tasks' = [tasks EXCEPT !.call[i] = IdleCall,
                                           !.log = Noted(outcome, 1, 0)]

\* the INSERT of task i completes: it follows a failed UPDATE of the call;
\* it succeeds only when no row has the key
TaskRateInsert(i, outcome) ==
    /\ tasks.call[i].pc = "insert"
    /\ LET call == tasks.call[i]
       IN /\ (outcome = "ok") => ~UsageConflict(usage, call.userId, call.today)
          /\ usage' = IF outcome = "ok"
                      THEN InsertUsage(usage, call.userId, call.today) ELSE usage
          /\ tasks' = [tasks EXCEPT !.call[i] = IdleCall,
                                    !.log = [Noted("ok", 1, 0) EXCEPT !.conflicts =
                                       IF UsageConflict(usage, call.userId, call.today)
                                       THEN @ + 1 ELSE @]]

\* the caller has no row, or a row just below the limit
InitRateTasks ==
    /\ cache = {}
    /\ an = IdleAnalysis
    /\ anResp = NoAnalysisResponse
    /\ anLog = NoAnalysisLog
    /\ keys = NoKeys
    /\ now = 0
    /\ users = {}
    /\ blacklist = {}
    /\ issued = {}
    /\ req = IdleReq
    /\ cleanups = {}
    /\ resp = NoResp
    /\ ops = 0
    /\ rl = IdleCall
    /\ rlResp = NoResult
    /\ rlLog = NoCalls
    /\ tz = 0
    /\ \E base \in {-1, DAILY_LIMIT - 2, DAILY_LIMIT - 1} :
         /\ usage = IF base = -1 THEN {}
                    ELSE {[user_id |-> Caller, daily_count |-> base, created_at |-> 0]}
         /\ tasks = [call |-> [i \in Tasks |-> IdleCall],
                     log |-> [NoRateHistory EXCEPT !.base = base]]

NextRateTasks ==
    \/ \E i \in Tasks : TaskRateCall(i)
         /\ UNCHANGED <<now, authVars, rl, rlResp, rlLog, tz, cache, an, anResp, anLog, keys>>
    \/ \E i \in Tasks, outcome \in StoreOutcomes : TaskRateRead(i, outcome)
         /\ UNCHANGED <<now, authVars, rl, rlResp, rlLog, tz, cache, an, anResp, anLog, keys>>
    \/ \E i \in Tasks, outcome \in StoreOutcomes : TaskRateUpdate(i, outcome)
         /\ UNCHANGED <<now, authVars, rl, rlResp, rlLog, tz, cache, an, anResp, anLog, keys>>
    \/ \E i \in Tasks, outcome \in StoreOutcomes : TaskRateInsert(i, outcome)
         /\ UNCHANGED <<now, authVars, rl, rlResp, rlLog, tz, cache, an, anResp, anLog, keys>>

SpecRateTasks == InitRateTasks /\ [][NextRateTasks]_vars

-----------------------------------------------------------------------------
(* Overlapping sign-ins: findOrCreateUser is suspended at its SELECT and at *)
(* its UPDATE or INSERT, and the statements of different sign-ins run in    *)
(* any order.                                                               *)

\* What tokeninfo answers for the ID tokens of the overlapping sign-ins: one
\* subject, and a second subject with the same email
TaskAssertions ==
    {[ok |-> TRUE, aud |-> GOOGLE_CLIENT_ID, sub |-> "g1", email |-> "a@x", name |-> "Ann"],
     [ok |-> TRUE, aud |-> GOOGLE_CLIENT_ID, sub |-> "g2", email |-> "a@x", name |-> "Ann"]}

\* the instants the clock visits while sign-ins overlap
TaskClockPoints == {0, 999, 1000}

NoUserRow ==
    [id |-> "", google_id |-> "", email |-> "", name |-> "",
     created_at |-> ToISOString(0), last_login_at |-> ToISOString(0)]

\* a sign-in that is not running: its assertion, the row it read or built,
\* and the instant bound to its UPDATE
IdleSignIn == [pc |-> "idle", sub |-> "", row |-> NoUserRow, at |-> ToISOString(0)]

\* UNIQUE google_id, UNIQUE email and the primary key of users reject the row
MutUserConflict_Never(rows, row) == FALSE

UserConflict(rows, row) ==
    \E r \in rows : r.google_id = row.google_id \/ r.email = row.email \/ r.id = row.id

\* UPDATE users SET last_login_at = ? WHERE id = ?
UpdateLastLogin(rows, id, at) ==
    {IF r.id = id THEN [r EXCEPT !.last_login_at = at] ELSE r : r \in rows}

\* authenticateWithGoogle returns: the token generateJWT built for the row
SignedInAs(i, row) ==
    [tasks EXCEPT !.call[i] = IdleSignIn,
                  !.log.returned = @ \cup {[token |-> generateJWT(row, JWT_SECRET, now, now),
                                            sub |-> row.google_id]}]

\* task i signs in with the assertion a: verifyGoogleToken passes and
\* findOrCreateUser runs up to its SELECT
TaskSignIn(i, a) ==
    /\ tasks.call[i].pc = "idle"
    /\ tasks.log.started < MaxStarted
    /\ verifyGoogleToken(a, GOOGLE_CLIENT_ID) = ""
    /\ tasks' = [tasks EXCEPT !.call[i] = [IdleSignIn EXCEPT !.pc = "find",
                                                             !.sub = a.sub],
                              !.log.started = @ + 1]
    /\ UNCHANGED <<now, users>>

\* the SELECT of task i completes; the UPDATE or the INSERT is prepared with
\* the values of new Date() (now and t2)
TaskFind(i, a, outcome, t2) ==
    /\ tasks.call[i].pc = "find"
    /\ tasks.call[i].sub = a.sub
    /\ TaskMayFail(outcome)
    /\ LET existing == SelectUser(users, a.sub)
       IN IF outcome # "ok"
          THEN \* 'Database error', or the rejection: the sign-in fails
               /\ tasks' = [tasks EXCEPT !.call[i] = IdleSignIn, !.log.fails = @ + 1]
               /\ now' = now
          ELSE IF existing # {}
          THEN \E row \in existing :
                 /\ tasks' = [tasks EXCEPT !.call[i] =
                                 [pc |-> "update", sub |-> a.sub, row |-> row,
                                  at |-> ToISOString(now)]]
                 /\ now' = now
          ELSE /\ tasks' = [tasks EXCEPT !.call[i] =
                               [pc |-> "insert", sub |-> a.sub,
                                row |-> NewUser(a, TaskUUID(i), now, t2),
                                at |-> ToISOString(0)]]
               /\ now' = t2
    /\ UNCHANGED users

\* the UPDATE of task i completes; an error is logged and the row as it was
\* read is returned either way
TaskUpdate(i, outcome) ==
    /\ tasks.call[i].pc = "update"
    /\ outcome \in {"ok", "error"}
    /\ TaskMayFail(outcome)
    /\ LET call == tasks.call[i]
       IN /\ users' = IF outcome = "ok"
                      THEN UpdateLastLogin(users, call.row.id, call.at) ELSE users
          /\ tasks' = [SignedInAs(i, call.row) EXCEPT
                         !.log.fails = IF outcome = "ok" THEN @ ELSE @ + 1]
    /\ UNCHANGED now

\* the INSERT of task i completes: it is rejected when a row has the subject,
\* the email or the id, and the sign-in then fails
TaskInsert(i, outcome) ==
    /\ tasks.call[i].pc = "insert"
    /\ LET call == tasks.call[i]
       IN /\ (outcome = "ok") => ~UserConflict(users, call.row)
          /\ (outcome # "ok") => (UserConflict(users, call.row) \/ TaskMayFail(outcome))
          /\ IF outcome = "ok"
             THEN /\ users' = users \cup {call.row}
                  /\ tasks' = SignedInAs(i, call.row)
             ELSE /\ users' = users
                  /\ tasks' = [tasks EXCEPT !.call[i] = IdleSignIn,
                                 !.log.fails = IF UserConflict(users, call.row)
                                               THEN @ ELSE @ + 1,
                                 !.log.rejected = @ + 1]
    /\ UNCHANGED now

\* The clock advances
TaskTick(t) ==
    /\ t > now
    /\ now' = t
    /\ UNCHANGED <<users, tasks>>

InitSignInTasks ==
    /\ cache = {}
    /\ an = IdleAnalysis
    /\ anResp = NoAnalysisResponse
    /\ anLog = NoAnalysisLog
    /\ keys = NoKeys
    /\ usage = {}
    /\ rl = IdleCall
    /\ rlResp = NoResult
    /\ rlLog = NoCalls
    /\ tz = 0
    /\ now = 0
    /\ users = {}
    /\ blacklist = {}
    /\ issued = {}
    /\ req = IdleReq
    /\ cleanups = {}
    /\ resp = NoResp
    /\ ops = 0
    /\ tasks = [call |-> [i \in Tasks |-> IdleSignIn],
                log |-> [started |-> 0, fails |-> 0, rejected |-> 0, returned |-> {}]]

NextSignInTasks ==
    \/ \E i \in Tasks, a \in TaskAssertions : TaskSignIn(i, a)
         /\ UNCHANGED <<blacklist, issued, req, cleanups, resp, ops, rateVars,
                        cache, an, anResp, anLog, keys>>
    \/ \E i \in Tasks, a \in TaskAssertions, outcome \in StoreOutcomes, t2 \in SyncRead(now) :
         TaskFind(i, a, outcome, t2)
         /\ UNCHANGED <<blacklist, issued, req, cleanups, resp, ops, rateVars,
                        cache, an, anResp, anLog, keys>>
    \/ \E i \in Tasks, outcome \in StoreOutcomes : TaskUpdate(i, outcome)
         /\ UNCHANGED <<blacklist, issued, req, cleanups, resp, ops, rateVars,
                        cache, an, anResp, anLog, keys>>
    \/ \E i \in Tasks, outcome \in StoreOutcomes : TaskInsert(i, outcome)
         /\ UNCHANGED <<blacklist, issued, req, cleanups, resp, ops, rateVars,
                        cache, an, anResp, anLog, keys>>
    \/ \E t \in TaskClockPoints : TaskTick(t)
         /\ UNCHANGED <<blacklist, issued, req, cleanups, resp, ops, rateVars,
                        cache, an, anResp, anLog, keys>>

SpecSignInTasks == InitSignInTasks /\ [][NextSignInTasks]_vars

-----------------------------------------------------------------------------
(* Properties of the rate limiter *)

\* C9: in a run of one identity and one day that starts without a counter
\* row and in which every statement succeeds, the k-th call is allowed with
\* currentCount = k up to the limit, and call 51 is denied; the first call
\* of the next day is the first call of such a run again.
C9_KthCallCountsK ==
    (rlResp.kind = "rate" /\ rlResp.userId = Caller /\ rlLog.clean) =>
        /\ (rlLog.k <= DAILY_LIMIT) =>
             (rlResp.allowed /\ rlResp.currentCount = rlLog.k)
        /\ (rlLog.k = DAILY_LIMIT + 1) => ~rlResp.allowed

\* a statement of the call ended in { error } or in a rejected promise
StatementFailed(r) ==
    \/ r.read \in {"error", "throw"}
    \/ r.update \in {"error", "throw"}
    \/ r.insert \in {"error", "throw"}

\* C10: a checkRateLimit call of a non-empty identity in which the SELECT,
\* the UPDATE or the INSERT failed returns allowed = true and does not raise.
C10_FailOpen ==
    (rlResp.kind = "rate" /\ rlResp.userId # "" /\ StatementFailed(rlResp)) =>
        (rlResp.allowed /\ ~rlResp.raised)

\* C10 witness: a call has returned allowed = true after its UPDATE resolved
\* to an error and its INSERT then failed or raised
C10_Witness ==
    /\ rlResp.kind = "rate"
    /\ rlResp.update = "error"
    /\ rlResp.insert \in {"error", "throw"}
    /\ rlResp.allowed

\* the call was denied because the stored count has reached the limit
DeniedAtLimit == 
    /\ rlResp.kind = "rate"
    /\ ~rlResp.allowed
    /\ rlResp.message = "Daily limit exceeded"

\* C11: a denial at the limit carries retryAfter, a whole number of seconds
\* with 0 < retryAfter <= 86400 that is the time left, at the moment the
\* result is returned, until the next midnight of the host.
C11_RetryAfterUntilMidnight ==
    DeniedAtLimit =>
        /\ 0 < rlResp.retryAfter
        /\ rlResp.retryAfter <= 86400
        /\ rlResp.retryAfter = Ceil(NextLocalMidnight(now, tz) - now, 1000)

-----------------------------------------------------------------------------
(* The analysis endpoint: request validation (ValidationService)            *)
(* A text or a URL is a sequence of characters.                              *)

MAX_TEXT_LENGTH == 10000
MIN_TEXT_LENGTH == 10
MAX_URL_LENGTH == 2048

\* the white space of the texts of the model
WhiteSpace == {" "}

\* String.prototype.toLowerCase on one character of the model's alphabet
LowerChar(c) ==
    CASE c = "A" -> "a" [] c = "B" -> "b" [] c = "C" -> "c" [] c = "H" -> "h"
      [] c = "O" -> "o" [] c = "P" -> "p" [] c = "S" -> "s" [] c = "T" -> "t"
      [] OTHER -> c

\* String.prototype.toLowerCase
ToLowerCase(s) == [i \in 1..Len(s) |-> LowerChar(s[i])]

\* String.prototype.trim
Trim(s) ==
    LET keep == {i \in 1..Len(s) : s[i] \notin WhiteSpace}
    IN IF keep = {} THEN <<>>
       ELSE SubSeq(s, CHOOSE i \in keep : \A j \in keep : i <= j,
                      CHOOSE i \in keep : \A j \in keep : i >= j)

\* s.split(/\s+/).length for a trimmed, non-empty s: one more than the
\* number of runs of white space
WordCount(s) ==
    IF s = <<>> THEN 1
    ELSE 1 + Cardinality({i \in 2..Len(s) : s[i] \in WhiteSpace /\ s[i - 1] \notin WhiteSpace})

Valid == [valid |-> TRUE, error |-> ""]
Invalid(msg) == [valid |-> FALSE, error |-> msg]

\* validateText
validateText(text) ==
    LET trimmedText == Trim(text)
    IN IF Len(trimmedText) = 0 THEN Invalid("Text cannot be empty")
       ELSE IF Len(trimmedText) < MIN_TEXT_LENGTH
       THEN Invalid("Text must be at least 10 characters long")
       ELSE IF Len(trimmedText) > MAX_TEXT_LENGTH
       THEN Invalid("Text cannot exceed 10000 characters")
       ELSE IF WordCount(trimmedText) < 3
       THEN Invalid("Text must contain at least 3 words")
       ELSE Valid

NoURL == [ok |-> FALSE, protocol |-> <<>>, hostname |-> <<>>]

\* new URL(url) for URLs of the form scheme://host/path: protocol and
\* hostname are lower-cased by the parser; ok is FALSE where it throws
URLParse(url) ==
    LET i == IndexOf(url, <<":">>)
        rest == SubSeq(url, i + 1, Len(url))
        afterSlashes == SubSeq(rest, 3, Len(rest))
        j == IndexOf(afterSlashes, <<"/">>)
        host == IF j = 0 THEN afterSlashes ELSE SubSeq(afterSlashes, 1, j - 1)
    IN IF i <= 1 THEN NoURL
       ELSE IF ~StartsWith(rest, <<"/", "/">>)
       THEN [ok |-> TRUE, protocol |-> ToLowerCase(SubSeq(url, 1, i)), hostname |-> <<>>]
       ELSE [ok |-> TRUE, protocol |-> ToLowerCase(SubSeq(url, 1, i)),
             hostname |-> ToLowerCase(host)]

Digits == {"0", "1", "2", "3", "4", "5", "6", "7", "8", "9"}

\* isPrivateOrLocalhost
isPrivateOrLocalhost(hostname) ==
    LET lowerHostname == ToLowerCase(hostname)
        localhost == <<"l", "o", "c", "a", "l", "h", "o", "s", "t">>
    IN \/ lowerHostname = localhost
       \/ StartsWith(lowerHostname, localhost \o <<".">>)
       \/ StartsWith(hostname, <<"1", "0", ".">>)
       \/ /\ StartsWith(hostname, <<"1", "7", "2", ".">>)
          /\ Len(hostname) >= 7
          /\ hostname[7] = "."
          /\ \/ hostname[5] = "1" /\ hostname[6] \in {"6", "7", "8", "9"}
             \/ hostname[5] = "2" /\ hostname[6] \in Digits
             \/ hostname[5] = "3" /\ hostname[6] \in {"0", "1"}
       \/ StartsWith(hostname, <<"1", "9", "2", ".", "1", "6", "8", ".">>)
       \/ StartsWith(hostname, <<"1", "2", "7", ".">>)
       \/ StartsWith(hostname, <<"1", "6", "9", ".", "2", "5", "4", ".">>)
       \/ hostname = <<":", ":", "1">>
       \/ StartsWith(hostname, <<"f", "e", "8", "0", ":">>)
       \/ StartsWith(hostname, <<"f", "c", "0", "0", ":">>)
       \/ StartsWith(hostname, <<"f", "d", "0", "0", ":">>)

\* validateUrl
validateUrl(url) ==
    LET urlObj == URLParse(url)
    IN IF Len(url) = 0 THEN Invalid("URL cannot be empty")
       ELSE IF Len(url) > MAX_URL_LENGTH THEN Invalid("URL cannot exceed 2048 characters")
       ELSE IF ~urlObj.ok THEN Invalid("Invalid URL format")
       ELSE IF urlObj.protocol \notin {<<"h", "t", "t", "p", ":">>,
                                       <<"h", "t", "t", "p", "s", ":">>}
       THEN Invalid("URL must use HTTP or HTTPS protocol")
       ELSE IF Len(urlObj.hostname) = 0 THEN Invalid("URL must have a valid hostname")
       ELSE IF isPrivateOrLocalhost(urlObj.hostname)
       THEN Invalid("URL cannot be localhost or private IP address")
       ELSE Valid

\* validateMode
validateMode(mode) ==
    IF mode \notin {"quick", "deep"}
    THEN Invalid("Mode must be either \"quick\" or \"deep\"")
    ELSE Valid

\* validateAnalysisRequest; an absent field is the empty string
validateAnalysisRequest(requestData) ==
    IF requestData.text = <<>> THEN Invalid("Text content is required")
    ELSE IF requestData.url = <<>> THEN Invalid("URL is required")
    ELSE IF requestData.mode = "" THEN Invalid("Analysis mode is required")
    ELSE IF ~validateText(requestData.text).valid THEN validateText(requestData.text)
    ELSE IF ~validateUrl(requestData.url).valid THEN validateUrl(requestData.url)
    ELSE IF ~validateMode(requestData.mode).valid THEN validateMode(requestData.mode)
    ELSE Valid

-----------------------------------------------------------------------------
(* The analysis endpoint: cache keys, results and the table cache_entries    *)

\* maxAge of getCache: 24 * 60 * 60 * 1000
MAX_AGE_MS == 24 * 60 * 60 * 1000

\* new Date(iso).getTime()
FromISO(iso) == iso.date * DAY_MS + iso.time

\* createHash('sha256').update(s).digest('hex').substring(0, 16), idealised
\* as collision free
Hash16(s) == "h(" \o Flat(s) \o ")"

\* generateCacheKey: `${urlHash}_${contentHash}_${mode}`
MutGenerateCacheKey_CaseSensitiveUrl(requestData) ==
    LET contentHash == Hash16(ToLowerCase(Trim(requestData.text)))
        urlHash == Hash16(requestData.url)
    IN <<urlHash, "_", contentHash, "_", requestData.mode>>

generateCacheKey(requestData) ==
    LET contentHash == Hash16(ToLowerCase(Trim(requestData.text)))
        urlHash == Hash16(ToLowerCase(requestData.url))
    IN <<urlHash, "_", contentHash, "_", requestData.mode>>

\* cacheKey.split('_')[n - 1]
KeyColumn(cacheKey, n) ==
    LET parts == Split(cacheKey, "_")
    IN IF n > Len(parts) \/ parts[n] = <<>> THEN "" ELSE parts[n][1]

\* The JSON objects the providers of the model embed in their answers.
\* confidenceScore is in hundredths; keyIndicators <<>> is an empty or an
\* absent array (parsed.keyIndicators || [] gives [] for both).
ParsedBodies ==
    {[classification |-> "ai-generated", confidenceLevel |-> "high",
      confidenceScore |-> 90, keyIndicators |-> <<"repetitive">>,
      reasoning |-> "patterns"],
     [classification |-> "human-written", confidenceLevel |-> "low",
      confidenceScore |-> 40, keyIndicators |-> <<>>, reasoning |-> "voice"]}

\* no JSON object was parsed from the provider's answer
NoParsedBody ==
    [classification |-> "", confidenceLevel |-> "", confidenceScore |-> -1,
     keyIndicators |-> <<>>, reasoning |-> ""]

\* parseAnalysisResult for an answer whose embedded JSON object is parsed
parseAnalysisResult(parsed, provider, wordCount) ==
    [classification |-> parsed.classification,
     confidenceLevel |-> parsed.confidenceLevel,
     confidenceScore |-> parsed.confidenceScore,
     keyIndicators |-> parsed.keyIndicators,
     reasoning |-> parsed.reasoning,
     metadata |-> [wordCount |-> wordCount, provider |-> provider,
                   analysisTime |-> 0, cacheCreatedAt |-> NoTime]]

\* the result performAnalysis returns: { ...result, metadata: {
\* ...result.metadata, analysisTime } }
WithAnalysisTime(result, analysisTime) ==
    [result EXCEPT !.metadata.analysisTime = analysisTime]

\* cacheEntry.result of setCache, as the JSONB column gives it back
MutCacheEntryResult_DropsReasoning(result) ==
    [classification |-> result.classification,
     confidence_level |-> result.confidenceLevel,
     confidence_score |-> result.confidenceScore,
     key_indicators |-> result.keyIndicators,
     reasoning |-> "",
     metadata |-> [word_count |-> result.metadata.wordCount,
                   provider |-> result.metadata.provider,
                   analysis_time |-> result.metadata.analysisTime]]

CacheEntryResult(result) ==
    [classification |-> result.classification,
     confidence_level |-> result.confidenceLevel,
     confidence_score |-> result.confidenceScore,
     key_indicators |-> result.keyIndicators,
     reasoning |-> result.reasoning,
     metadata |-> [word_count |-> result.metadata.wordCount,
                   provider |-> result.metadata.provider,
                   analysis_time |-> result.metadata.analysisTime]]

\* requestData.lastModified || new Date().toISOString(), read at t
LastModified(requestData, t) ==
    IF requestData.lastModified # ""
    THEN [text |-> requestData.lastModified, iso |-> NoTime]
    ELSE [text |-> "", iso |-> ToISOString(t)]

\* cacheEntry of setCache; t1 and t2 are its two new Date() reads
CacheEntryOf(cacheKey, result, requestData, t1, t2) ==
    [url_hash |-> KeyColumn(cacheKey, 1),
     content_hash |-> KeyColumn(cacheKey, 2),
     last_modified |-> LastModified(requestData, t1),
     full_url |-> requestData.url,
     domain |-> URLParse(requestData.url).hostname,
     mode |-> KeyColumn(cacheKey, 3),
     result |-> CacheEntryResult(result),
     created_at |-> ToISOString(t2)]

\* convertCacheEntryToResult
convertCacheEntryToResult(cacheEntry) ==
    [classification |-> cacheEntry.result.classification,
     confidenceLevel |-> cacheEntry.result.confidence_level,
     confidenceScore |-> cacheEntry.result.confidence_score,
     keyIndicators |-> cacheEntry.result.key_indicators,
     reasoning |-> cacheEntry.result.reasoning,
     metadata |-> [wordCount |-> cacheEntry.result.metadata.word_count,
                   provider |-> cacheEntry.result.metadata.provider,
                   analysisTime |-> cacheEntry.result.metadata.analysis_time,
                   cacheCreatedAt |-> cacheEntry.created_at]]

\* SELECT * FROM cache_entries WHERE url_hash = ? AND content_hash = ? AND mode = ?
SelectCache(rows, cacheKey) ==
    {r \in rows : /\ r.url_hash = KeyColumn(cacheKey, 1)
                  /\ r.content_hash = KeyColumn(cacheKey, 2)
                  /\ r.mode = KeyColumn(cacheKey, 3)}

\* DELETE FROM cache_entries WHERE url_hash = ? AND content_hash = ? AND mode = ?
MutDeleteCache_KeepsRows(rows, cacheKey) == rows

DeleteCache(rows, cacheKey) == rows \ SelectCache(rows, cacheKey)

\* UNIQUE(url_hash, content_hash, last_modified, mode)
CacheConflict(rows, entry) ==
    \E r \in rows : /\ r.url_hash = entry.url_hash
                    /\ r.content_hash = entry.content_hash
                    /\ r.last_modified = entry.last_modified
                    /\ r.mode = entry.mode

\* cacheAge > maxAge, with Date.now() read at t
MutCacheExpired_Always(cacheEntry, t) == t - FromISO(cacheEntry.created_at) >= 0

CacheExpired(cacheEntry, t) == t - FromISO(cacheEntry.created_at) > MAX_AGE_MS

-----------------------------------------------------------------------------
(* The analysis endpoint: handleAnalysisRequest, analyzeContent,            *)
(* performAnalysis                                                          *)

\* "https://a.co/p" and the same locator in another casing
UrlA == <<"h", "t", "t", "p", "s", ":", "/", "/", "a", ".", "c", "o", "/", "p">>
UrlAUpper == <<"H", "T", "T", "P", "S", ":", "/", "/", "A", ".", "C", "O", "/", "P">>
\* "ftp://a.co/p" and "http://localhost/p"
UrlFtp == <<"f", "t", "p", ":", "/", "/", "a", ".", "c", "o", "/", "p">>
UrlLocal == <<"h", "t", "t", "p", ":", "/", "/", "l", "o", "c", "a", "l", "h", "o", "s", "t", "/", "p">>

\* "ab cd efghi", the same text in another casing and padded with white
\* space, another text, and a text that is too short
TextA == <<"a", "b", " ", "c", "d", " ", "e", "f", "g", "h", "i">>
TextAVariant == <<" ", "A", "B", " ", "c", "d", " ", "e", "f", "g", "H", "i", " ">>
TextB == <<"a", "b", " ", "c", "d", " ", "e", "f", "g", "h", "j">>
TextShort == <<"a", "b", " ", "c", "d">>

AnalysisRequestData(url, text, mode, lastModified) ==
    [parses |-> TRUE, url |-> url, text |-> text, mode |-> mode,
     lastModified |-> lastModified]

\* The request bodies the clients of the model send
RequestBodies ==
    {AnalysisRequestData(UrlA, TextA, "quick", ""),
     AnalysisRequestData(UrlA, TextA, "quick", "lm1"),
     AnalysisRequestData(UrlA, TextShort, "quick", ""),
     AnalysisRequestData(UrlFtp, TextA, "quick", ""),
     AnalysisRequestData(UrlLocal, TextA, "quick", ""),
     NoRequestData}

\* What requireAuth does for the requests of the model: it returns the claims
\* of a token, or throws one of its three errors
AuthResults ==
    {[ok |-> TRUE, userId |-> Caller, error |-> ""],
     [ok |-> TRUE, userId |-> OtherUser, error |-> ""],
     [ok |-> FALSE, userId |-> "",
      error |-> "Authentication required: Missing authorization header"],
     [ok |-> FALSE, userId |-> "",
      error |-> "Authentication required: Invalid authorization format"],
     [ok |-> FALSE, userId |-> "", error |-> "Authentication required: Invalid token"]}

\* How a provider call can end: an answer with an embedded JSON object, a
\* rejected fetch, a non-success status, an answer without content, an
\* answer whose content holds no parseable JSON object
ProviderOutcomes == {"ok", "transport", "status", "empty", "unparseable"}

\* the instants the clock visits while the analysis endpoint runs
AnalysisClockPoints == {0, DAY_MS, DAY_MS + 1}

\* the response under construction for the request in flight
ResponseFor(r) ==
    [NoAnalysisResponse EXCEPT !.kind = "analysis", !.userId = r.userId,
        !.data = r.data, !.cacheKey = r.cacheKey, !.authed = TRUE,
        !.valid = r.valid,
        !.calls = r.calls, !.lookups = r.lookups, !.rateChecks = r.rateChecks,
        !.quota = r.quota, !.rows = r.rows, !.lookupAt = r.lookupAt]

\* the catch block of handleAnalysisRequest for an error that is not an
\* authentication error: createErrorResponse('Analysis failed', 500, message)
MutAnalysisFailed_AnswersOk(r, message) ==
    [ResponseFor(r) EXCEPT !.status = 200, !.cacheStatus = "miss", !.message = message]

AnalysisFailed(r, message) ==
    [ResponseFor(r) EXCEPT !.status = 500, !.error = "Analysis failed",
                           !.message = message]

\* what the stage after validation is
MutStageAfterValidation_AlwaysRate(validation) == "rate"

StageAfterValidation(validation) == IF validation.valid THEN "rate" ELSE "reject"

\* A request arrives: requireAuth, request.json(), validateRequest, and
\* analyzeContent up to the SELECT of checkRateLimit
AnalysisReceive(auth, body) ==
    /\ an.pc = "idle"
    /\ rl.pc = "idle"
    /\ anLog.n < MaxRequests
    /\ anLog' = [anLog EXCEPT !.n = anLog.n + 1]
    /\ LET validation == validateAnalysisRequest(body)
           base == [NoAnalysisResponse EXCEPT !.kind = "analysis", !.data = body,
                                              !.userId = auth.userId]
       IN IF ~auth.ok
          THEN \* createAuthErrorResponse; the body has not been read
               /\ anResp' = [base EXCEPT !.status = 401, !.error = auth.error,
                                         !.data = NoRequestData]
               /\ rlResp' = NoResult
               /\ UNCHANGED <<an, rl, rlLog, now, usage, tz>>
          ELSE IF ~body.parses
          THEN /\ anResp' = [base EXCEPT !.status = 500, !.error = "Analysis failed",
                                         !.message = "SyntaxError", !.authed = TRUE]
               /\ rlResp' = NoResult
               /\ UNCHANGED <<an, rl, rlLog, now, usage, tz>>
          ELSE IF StageAfterValidation(validation) = "reject"
          THEN /\ anResp' = [base EXCEPT !.status = 400, !.authed = TRUE,
                               !.error = IF validation.error # "" THEN validation.error
                                         ELSE "Invalid request"]
               /\ rlResp' = NoResult
               /\ UNCHANGED <<an, rl, rlLog, now, usage, tz>>
          ELSE /\ RateCall(auth.userId)
               /\ an' = [IdleAnalysis EXCEPT !.pc = "rate", !.userId = auth.userId,
                                             !.data = body, !.rateChecks = 1,
                                             !.valid = validation.valid,
                                             !.quota = [day |-> Today(now),
                                                        count |-> CurrentCount(usage,
                                                            auth.userId, Today(now))]]
               /\ anResp' = NoAnalysisResponse
    /\ UNCHANGED cache

\* the cache statement ended; the history notes a statement that failed
NoteStatement(outcome) ==
    IF outcome = "ok" THEN anLog
    ELSE [anLog EXCEPT !.clean = FALSE, !.fails = anLog.fails + 1]

\* the model lets at most MaxFailedCalls calls of the request's store
\* statements fail
MayFail(outcome) ==
    (outcome # "ok") =>
        (rl.update = "error" \/ rlLog.fails + anLog.fails < MaxFailedCalls)

\* if (!rateLimitResult.allowed) throw ...: what analyzeContent does with the
\* result of checkRateLimit
MutStageAfterRateLimit_IgnoresDenial(rateLimitResult) == "lookup"

StageAfterRateLimit(rateLimitResult) ==
    IF ~rateLimitResult.allowed THEN "throw" ELSE "lookup"

\* analyzeContent goes on when checkRateLimit has returned
AfterRateLimit(outcome) ==
    /\ an.pc = "rate"
    /\ MayFail(outcome)
    /\ IF rlResp'.kind # "rate"
       THEN /\ an' = an
            /\ anResp' = NoAnalysisResponse
       ELSE IF StageAfterRateLimit(rlResp') = "throw"
       THEN /\ anResp' = [AnalysisFailed(an, "Rate limit exceeded. Retry after "
                                             \o ToString(rlResp'.retryAfter) \o " seconds")
                          EXCEPT !.denied = TRUE]
            /\ an' = IdleAnalysis
       ELSE /\ an' = [an EXCEPT !.pc = "lookup", !.cacheKey = generateCacheKey(an.data)]
            /\ anResp' = NoAnalysisResponse
    /\ UNCHANGED <<cache, anLog>>

\* performAnalysis starts
StartAnalysis(r) == [r EXCEPT !.pc = "primary", !.startTime = now]

\* The SELECT of getCache completes
CacheLookup(outcome) ==
    /\ an.pc = "lookup"
    /\ MayFail(outcome)
    /\ anLog' = NoteStatement(outcome)
    /\ LET found == SelectCache(cache, an.cacheKey)
           looked == [an EXCEPT !.lookups = an.lookups + 1, !.lookupAt = now,
                                !.rows = found,
                                !.lookup = IF outcome = "ok" THEN "ok" ELSE "failed"]
       IN IF outcome # "ok" \/ found = {}
          THEN /\ an' = StartAnalysis(looked)
               /\ anResp' = NoAnalysisResponse
          ELSE \E data \in found :
                 IF CacheExpired(data, now)
                 THEN /\ an' = [looked EXCEPT !.pc = "evict", !.expired = data]
                      /\ anResp' = NoAnalysisResponse
                 ELSE /\ anResp' = [ResponseFor(looked) EXCEPT !.status = 200,
                                       !.body = convertCacheEntryToResult(data),
                                       !.cacheStatus = "hit", !.found = data]
                      /\ an' = IdleAnalysis
    /\ rlResp' = NoResult
    /\ UNCHANGED <<now, cache, usage, rl, rlLog, tz>>

\* The DELETE of deleteCache completes; its errors are logged
CacheEvict(outcome) ==
    /\ an.pc = "evict"
    /\ MayFail(outcome)
    /\ cache' = IF outcome = "ok" THEN DeleteCache(cache, an.cacheKey) ELSE cache
    /\ anLog' = [NoteStatement(outcome) EXCEPT
                   !.stored = {s \in anLog.stored : s.entry \in cache'}]
    /\ an' = StartAnalysis([an EXCEPT
                                !.evict = IF outcome = "ok" THEN "ok" ELSE "failed"])
    /\ anResp' = NoAnalysisResponse
    /\ rlResp' = NoResult
    /\ UNCHANGED <<now, usage, rl, rlLog, tz>>

\* the provider performAnalysis calls at each position
MutProviderAt_AlwaysOpenAI(pc) == "openai"

ProviderAt(pc) == IF pc = "primary" THEN "openai" ELSE "anthropic"

\* no provider is left to try after the one called at this position failed
MutExhausted_Never(pc) == FALSE

Exhausted(pc) == pc # "primary"

\* the 200 answer of a request that was analysed
FreshResponse(r) ==
    [ResponseFor(r) EXCEPT !.status = 200, !.body = r.result, !.cacheStatus = "miss"]

\* A provider call ends.  On success performAnalysis returns and setCache
\* runs up to its INSERT (its two new Date() reads are now and t2); when the
\* primary fails the secondary is called; when both fail analyzeContent throws.
ProviderReturns(outcome, parsed, t2) ==
    /\ an.pc \in {"primary", "secondary"}
    /\ LET provider == ProviderAt(an.pc)
           \* what getCache held (lookup, expired, evict) is gone by now
           called == [an EXCEPT !.calls = Append(an.calls,
                                   [provider |-> provider, ok |-> (outcome = "ok"),
                                    answer |-> IF outcome = "ok" THEN parsed
                                               ELSE NoParsedBody]),
                                !.lookup = "", !.expired = NoCacheEntry, !.evict = ""]
           wordCount == WordCount(Trim(an.data.text))
           result == WithAnalysisTime(parseAnalysisResult(parsed, provider, wordCount),
                                      now - an.startTime)
           done == [called EXCEPT !.result = result]
       IN IF outcome = "ok"
          THEN IF ~URLParse(an.data.url).ok
               THEN \* new URL throws inside setCache: nothing is stored
                    /\ anResp' = FreshResponse(done)
                    /\ an' = IdleAnalysis
                    /\ anLog' = anLog
                    /\ now' = now
               ELSE /\ an' = [done EXCEPT !.pc = "store",
                                !.entry = CacheEntryOf(an.cacheKey, result, an.data, now, t2)]
                    /\ anResp' = NoAnalysisResponse
                    /\ anLog' = anLog
                    /\ now' = t2
          ELSE IF ~Exhausted(an.pc)
          THEN /\ an' = [called EXCEPT !.pc = "secondary"]
               /\ anResp' = NoAnalysisResponse
               /\ UNCHANGED <<anLog, now>>
          ELSE /\ anResp' = AnalysisFailed(called,
                               "Content analysis failed. Please try again later.")
               /\ an' = IdleAnalysis
               /\ UNCHANGED <<anLog, now>>
    /\ rlResp' = NoResult
    /\ UNCHANGED <<cache, usage, rl, rlLog, tz>>

\* what analyzeContent answers when setCache has returned: setCache logs the
\* error or the rejection of its INSERT and returns normally
MutAfterSetCache_Propagates(r, outcome) ==
    IF outcome = "ok" THEN FreshResponse(r) ELSE AnalysisFailed(r, "Cache set error")

AfterSetCache(r, outcome) == FreshResponse(r)

\* The INSERT of setCache completes; its errors are logged.  The UNIQUE
\* constraint makes it fail when the row exists.
CacheStore(outcome) ==
    /\ an.pc = "store"
    /\ MayFail(outcome) \/ CacheConflict(cache, an.entry)
    /\ (outcome = "ok") => ~CacheConflict(cache, an.entry)
    /\ cache' = IF outcome = "ok" THEN cache \cup {an.entry} ELSE cache
    /\ anLog' = [NoteStatement(outcome) EXCEPT
                   !.stored = IF outcome = "ok"
                              THEN anLog.stored \cup {[entry |-> an.entry,
                                                        result |-> an.result]}
                              ELSE anLog.stored]
    /\ anResp' = [AfterSetCache(an, outcome) EXCEPT !.stored = (outcome = "ok")]
    /\ an' = IdleAnalysis
    /\ rlResp' = NoResult
    /\ UNCHANGED <<now, usage, rl, rlLog, tz>>

\* The clock advances.  The instants of the model are a day apart: a request
\* in flight sees the clock move only between two reads that follow each
\* other (SyncRead).
AnalysisTick(t) ==
    /\ an.pc = "idle"
    /\ t > now
    /\ now' = t
    /\ anResp' = NoAnalysisResponse
    /\ rlResp' = NoResult
    /\ UNCHANGED <<usage, rl, rlLog, tz, cache, an, anLog>>

InitAnalysis ==
    /\ now = 0
    /\ users = {}
    /\ blacklist = {}
    /\ issued = {}
    /\ req = IdleReq
    /\ cleanups = {}
    /\ resp = NoResp
    /\ ops = 0
    /\ usage = {[user_id |-> OtherUser, daily_count |-> DAILY_LIMIT, created_at |-> 0]}
    /\ rl = IdleCall
    /\ rlResp = NoResult
    /\ rlLog = NoCalls
    /\ tz = 0
    /\ cache = {}
    /\ an = IdleAnalysis
    /\ anResp = NoAnalysisResponse
    /\ anLog = NoAnalysisLog
    /\ keys = NoKeys
    /\ tasks = NoTasks

NextAnalysis ==
    \/ \E auth \in AuthResults, body \in RequestBodies :
         AnalysisReceive(auth, body) /\ UNCHANGED <<authVars, keys, tasks>>
    \/ \E outcome \in StoreOutcomes, t2 \in SyncRead(now) :
         RateRead(outcome, t2) /\ AfterRateLimit(outcome) /\ UNCHANGED <<authVars, keys, tasks>>
    \/ \E outcome \in StoreOutcomes :
         RateUpdate(outcome) /\ AfterRateLimit(outcome) /\ UNCHANGED <<authVars, keys, tasks>>
    \/ \E outcome \in StoreOutcomes :
         RateInsert(outcome) /\ AfterRateLimit(outcome) /\ UNCHANGED <<authVars, keys, tasks>>
    \/ \E outcome \in StoreOutcomes : CacheLookup(outcome) /\ UNCHANGED <<authVars, keys, tasks>>
    \/ \E outcome \in StoreOutcomes : CacheEvict(outcome) /\ UNCHANGED <<authVars, keys, tasks>>
    \/ \E outcome \in ProviderOutcomes, parsed \in ParsedBodies, t2 \in SyncRead(now) :
         ProviderReturns(outcome, parsed, t2) /\ UNCHANGED <<authVars, keys, tasks>>
    \/ \E outcome \in StoreOutcomes : CacheStore(outcome) /\ UNCHANGED <<authVars, keys, tasks>>
    \/ \E t \in AnalysisClockPoints : AnalysisTick(t) /\ UNCHANGED <<authVars, keys, tasks>>

SpecAnalysis == InitAnalysis /\ [][NextAnalysis]_vars

\* the statements a request in flight has sent to the store and is awaiting
StoreSettles ==
    /\ an.pc \in {"rate", "lookup", "evict", "store"}
    /\ NextAnalysis

\* The analysis endpoint with a store that answers every statement.  Nothing
\* makes a provider answer: await fetch(...) of analyzeWithOpenAI and of
\* analyzeWithAnthropic has no signal and no timer beside it, so
\* ProviderReturns is under no fairness condition.
SpecAnalysisLive == SpecAnalysis /\ WF_vars(StoreSettles)

\* JSON objects a provider can embed in its answer besides the ones the
\* prompt asks for: a label outside the two classifications, a tier outside
\* the three levels, a score above 1 (150 hundredths)
OffShapeBodies ==
    {[classification |-> "uncertain", confidenceLevel |-> "high",
      confidenceScore |-> 90, keyIndicators |-> <<>>, reasoning |-> "mixed"],
     [classification |-> "ai-generated", confidenceLevel |-> "certain",
      confidenceScore |-> 90, keyIndicators |-> <<>>, reasoning |-> "patterns"],
     [classification |-> "ai-generated", confidenceLevel |-> "high",
      confidenceScore |-> 150, keyIndicators |-> <<>>, reasoning |-> "patterns"]}

\* The analysis endpoint serving one identity and one request body, with
\* providers that may embed any of these objects
NextShape ==
    \/ \E auth \in {a \in AuthResults : a.userId = Caller} :
         AnalysisReceive(auth, AnalysisRequestData(UrlA, TextA, "quick", ""))
         /\ UNCHANGED <<authVars, keys, tasks>>
    \/ \E outcome \in StoreOutcomes, t2 \in SyncRead(now) :
         RateRead(outcome, t2) /\ AfterRateLimit(outcome) /\ UNCHANGED <<authVars, keys, tasks>>
    \/ \E outcome \in StoreOutcomes :
         RateUpdate(outcome) /\ AfterRateLimit(outcome) /\ UNCHANGED <<authVars, keys, tasks>>
    \/ \E outcome \in StoreOutcomes :
         RateInsert(outcome) /\ AfterRateLimit(outcome) /\ UNCHANGED <<authVars, keys, tasks>>
    \/ \E outcome \in StoreOutcomes : CacheLookup(outcome) /\ UNCHANGED <<authVars, keys, tasks>>
    \/ \E outcome \in StoreOutcomes : CacheEvict(outcome) /\ UNCHANGED <<authVars, keys, tasks>>
    \/ \E outcome \in ProviderOutcomes, parsed \in ParsedBodies \cup OffShapeBodies,
          t2 \in SyncRead(now) :
         ProviderReturns(outcome, parsed, t2) /\ UNCHANGED <<authVars, keys, tasks>>
    \/ \E outcome \in StoreOutcomes : CacheStore(outcome) /\ UNCHANGED <<authVars, keys, tasks>>
    \/ \E t \in AnalysisClockPoints : AnalysisTick(t) /\ UNCHANGED <<authVars, keys, tasks>>

SpecShape == InitAnalysis /\ [][NextShape]_vars

-----------------------------------------------------------------------------
(* Overlapping classify requests on one key: analyzeContent is suspended at *)
(* the SELECT and the DELETE of getCache, at the provider call and at the   *)
(* INSERT of setCache, and the statements of different requests run in any  *)
(* order.                                                                   *)

\* the request every overlapping call carries, and its key
TaskRequest == AnalysisRequestData(UrlA, TextA, "quick", "")

TaskCacheKey == generateCacheKey(TaskRequest)

\* what performAnalysis returns for it when the primary provider answers
TaskResult(parsed, analysisTime) ==
    WithAnalysisTime(parseAnalysisResult(parsed, "openai", WordCount(Trim(TaskRequest.text))),
                     analysisTime)

\* the instants the clock visits while the requests overlap: the entry stored
\* at 0 is older than maxAge at each of them
CacheTaskClockPoints == {DAY_MS + 1, DAY_MS + 2}

\* an analyzeContent call that is not running
IdleClassify == [pc |-> "idle", entry |-> NoCacheEntry, startTime |-> 0]

\* task i calls analyzeContent; getCache runs up to its SELECT
TaskClassify(i) ==
    /\ tasks.call[i].pc = "idle"
    /\ tasks.log.started < MaxStarted
    /\ tasks' = [tasks EXCEPT !.call[i] = [IdleClassify EXCEPT !.pc = "lookup"],
                              !.log.started = @ + 1]
    /\ UNCHANGED <<now, cache>>

\* the SELECT of getCache completes in task i: an error or no row is a miss,
\* a row older than maxAge goes to deleteCache, a younger one is returned
TaskCacheLookup(i, outcome) ==
    /\ tasks.call[i].pc = "lookup"
    /\ TaskMayFail(outcome)
    /\ LET found == SelectCache(cache, TaskCacheKey)
       IN IF outcome # "ok"
          THEN tasks' = [tasks EXCEPT !.call[i].pc = "provider",
                                      !.call[i].startTime = now,
                                      !.log.fails = @ + 1]
          ELSE IF found = {}
          THEN tasks' = [tasks EXCEPT !.call[i].pc = "provider",
                                      !.call[i].startTime = now]
          ELSE \E data \in found :
                 IF CacheExpired(data, now)
                 THEN tasks' = [tasks EXCEPT !.call[i].pc = "evict"]
                 ELSE tasks' = [tasks EXCEPT !.call[i] = IdleClassify,
                                             !.log.hits = @ + 1]
    /\ UNCHANGED <<now, cache>>

\* the DELETE of deleteCache completes in task i; its errors are logged
TaskCacheEvict(i, outcome) ==
    /\ tasks.call[i].pc = "evict"
    /\ TaskMayFail(outcome)
    /\ cache' = IF outcome = "ok" THEN DeleteCache(cache, TaskCacheKey) ELSE cache
    /\ tasks' = [tasks EXCEPT !.call[i].pc = "provider",
                              !.call[i].startTime = now,
                              !.log.fails = IF outcome = "ok" THEN @ ELSE @ + 1,
                              !.log.evictions = IF outcome = "ok" THEN @ + 1 ELSE @]
    /\ UNCHANGED now

\* performAnalysis ends in task i: with a result, and setCache runs up to its
\* INSERT (its two new Date() reads are now and t2), or with both providers
\* failed, and analyzeContent throws
TaskProviderReturns(i, outcome, parsed, t2) ==
    /\ tasks.call[i].pc = "provider"
    /\ TaskMayFail(outcome)
    /\ IF outcome = "ok"
       THEN /\ tasks' = [tasks EXCEPT !.call[i].pc = "store",
                            !.call[i].entry =
                                CacheEntryOf(TaskCacheKey,
                                             TaskResult(parsed, now - tasks.call[i].startTime),
                                             TaskRequest, now, t2)]
            /\ now' = t2
       ELSE /\ tasks' = [tasks EXCEPT !.call[i] = IdleClassify, !.log.fails = @ + 1]
            /\ now' = now
    /\ UNCHANGED cache

\* the INSERT of setCache completes in task i; its errors and the rejection
\* by the UNIQUE constraint are logged
TaskCacheStore(i, outcome) ==
    /\ tasks.call[i].pc = "store"
    /\ LET entry == tasks.call[i].entry
       IN /\ (outcome = "ok") => ~CacheConflict(cache, entry)
          /\ (outcome # "ok") => (CacheConflict(cache, entry) \/ TaskMayFail(outcome))
          /\ cache' = IF outcome = "ok" THEN cache \cup {entry} ELSE cache
          /\ tasks' = [tasks EXCEPT !.call[i] = IdleClassify,
                          !.log.fails = IF outcome = "ok" \/ CacheConflict(cache, entry)
                                        THEN @ ELSE @ + 1,
                          !.log.stores = IF outcome = "ok" THEN @ + 1 ELSE @]
    /\ UNCHANGED now

\* The clock advances
CacheTaskTick(t) ==
    /\ t > now
    /\ now' = t
    /\ UNCHANGED <<cache, tasks>>

\* One entry for the key was stored at instant 0, more than maxAge ago
InitCacheTasks ==
    /\ users = {}
    /\ blacklist = {}
    /\ issued = {}
    /\ req = IdleReq
    /\ cleanups = {}
    /\ resp = NoResp
    /\ ops = 0
    /\ usage = {}
    /\ rl = IdleCall
    /\ rlResp = NoResult
    /\ rlLog = NoCalls
    /\ tz = 0
    /\ an = IdleAnalysis
    /\ anResp = NoAnalysisResponse
    /\ anLog = NoAnalysisLog
    /\ keys = NoKeys
    /\ now = DAY_MS + 1
    /\ \E parsed \in ParsedBodies :
         cache = {CacheEntryOf(TaskCacheKey, TaskResult(parsed, 0), TaskRequest, 0, 0)}
    /\ tasks = [call |-> [i \in Tasks |-> IdleClassify],
                log |-> [started |-> 0, fails |-> 0, hits |-> 0, evictions |-> 0,
                         stores |-> 0]]

NextCacheTasks ==
    \/ \E i \in Tasks : TaskClassify(i)
         /\ UNCHANGED <<authVars, rateVars, an, anResp, anLog, keys>>
    \/ \E i \in Tasks, outcome \in StoreOutcomes : TaskCacheLookup(i, outcome)
         /\ UNCHANGED <<authVars, rateVars, an, anResp, anLog, keys>>
    \/ \E i \in Tasks, outcome \in StoreOutcomes : TaskCacheEvict(i, outcome)
         /\ UNCHANGED <<authVars, rateVars, an, anResp, anLog, keys>>
    \/ \E i \in Tasks, outcome \in StoreOutcomes, parsed \in ParsedBodies,
          t2 \in {now, now + 1} \cap CacheTaskClockPoints :
         TaskProviderReturns(i, outcome, parsed, t2)
         /\ UNCHANGED <<authVars, rateVars, an, anResp, anLog, keys>>
    \/ \E i \in Tasks, outcome \in StoreOutcomes : TaskCacheStore(i, outcome)
         /\ UNCHANGED <<authVars, rateVars, an, anResp, anLog, keys>>
    \/ \E t \in CacheTaskClockPoints : CacheTaskTick(t)
         /\ UNCHANGED <<authVars, rateVars, an, anResp, anLog, keys>>

SpecCacheTasks == InitCacheTasks /\ [][NextCacheTasks]_vars

-----------------------------------------------------------------------------
(* Cache key derivation applied to pairs of requests                        *)

\* "https://b.co/p"
UrlB == <<"h", "t", "t", "p", "s", ":", "/", "/", "b", ".", "c", "o", "/", "p">>

\* the requests whose keys are compared: a request, its variants in the
\* casing and the padding of the text and in the casing of the locator, and
\* requests with another text, another locator, another mode, another
\* freshness token
KeyRequests ==
    {AnalysisRequestData(UrlA, TextA, "quick", ""),
     AnalysisRequestData(UrlA, TextAVariant, "quick", ""),
     AnalysisRequestData(UrlAUpper, TextA, "quick", ""),
     AnalysisRequestData(UrlAUpper, TextAVariant, "quick", ""),
     AnalysisRequestData(UrlA, TextB, "quick", ""),
     AnalysisRequestData(UrlB, TextA, "quick", ""),
     AnalysisRequestData(UrlA, TextA, "deep", ""),
     AnalysisRequestData(UrlA, TextA, "quick", "lm1"),
     AnalysisRequestData(UrlA, TextA, "quick", "lm2")}

\* generateCacheKey is applied to the first request
DeriveFirstKey ==
    /\ keys.firstKey = <<>>
    /\ keys' = [keys EXCEPT !.firstKey = generateCacheKey(keys.first)]
    /\ UNCHANGED <<now, authVars, rateVars, cache, an, anResp, anLog, tasks>>

\* generateCacheKey is applied to the second request
DeriveSecondKey ==
    /\ keys.secondKey = <<>>
    /\ keys' = [keys EXCEPT !.secondKey = generateCacheKey(keys.second)]
    /\ UNCHANGED <<now, authVars, rateVars, cache, an, anResp, anLog, tasks>>

InitKey ==
    /\ now = 0
    /\ users = {}
    /\ blacklist = {}
    /\ issued = {}
    /\ req = IdleReq
    /\ cleanups = {}
    /\ resp = NoResp
    /\ ops = 0
    /\ usage = {}
    /\ rl = IdleCall
    /\ rlResp = NoResult
    /\ rlLog = NoCalls
    /\ tz = 0
    /\ cache = {}
    /\ an = IdleAnalysis
    /\ anResp = NoAnalysisResponse
    /\ anLog = NoAnalysisLog
    /\ tasks = NoTasks
    /\ \E a \in KeyRequests, b \in KeyRequests :
         keys = [NoKeys EXCEPT !.first = a, !.second = b]

NextKey == DeriveFirstKey \/ DeriveSecondKey

SpecKey == InitKey /\ [][NextKey]_vars

-----------------------------------------------------------------------------
(* Properties of the analysis endpoint                                      *)

\* C12: when the rate limiter denies a request, the analysis endpoint answers
\* 429 with an error of its own kind, not the generic analysis failure, and
\* the error carries the retry delay as a numeric field.
C12_DenialIsRateLimitError ==
    anResp.denied =>
        /\ anResp.status = 429
        /\ anResp.error # "Analysis failed"
        /\ anResp.retryAfter >= 0

\* the request just answered failed authentication, or its body failed to
\* parse or to validate
Rejected(r) == r.kind = "analysis" /\ (~r.authed \/ ~r.valid)

\* C13: a request that fails authentication or payload validation is rejected
\* before any side effect: the step that answers it leaves every usage counter
\* and every cache entry unchanged, and the request made no rate check, no
\* cache lookup and no provider call.
C13_RejectedBeforeSideEffects ==
    [][Rejected(anResp') =>
          /\ usage' = usage
          /\ cache' = cache
          /\ anResp'.rateChecks = 0
          /\ anResp'.lookups = 0
          /\ anResp'.calls = <<>>]_vars

\* a body that fails validation is answered 400 while the cache holds an entry
C13_Witness ==
    /\ Rejected(anResp)
    /\ anResp.authed
    /\ anResp.status = 400
    /\ cache # {}

\* the request just answered looked the cache up at an instant within the
\* TTL of a row the table held for its key
LookedUpWithinTTL(r) ==
    /\ r.kind = "analysis"
    /\ r.lookups = 1
    /\ \E row \in r.rows : r.lookupAt - FromISO(row.created_at) <= MAX_AGE_MS

\* C14: when every cache statement has succeeded, an allowed request whose
\* key has a row stored by an earlier fresh answer, looked up within the TTL
\* of that row, is answered from the cache and makes no provider call.
C14_SecondCallHits ==
    (LookedUpWithinTTL(anResp) /\ anLog.clean) =>
        /\ anResp.status = 200
        /\ anResp.cacheStatus = "hit"
        /\ anResp.calls = <<>>
        /\ anResp.found \in anResp.rows

\* a hit exactly 24 hours after the row was created
C14_Witness ==
    /\ LookedUpWithinTTL(anResp)
    /\ anLog.clean
    /\ anResp.cacheStatus = "hit"
    /\ anResp.lookupAt - FromISO(anResp.found.created_at) = MAX_AGE_MS
    /\ anResp.found.full_url = anResp.data.url

\* the request just answered was answered from the cache
Hit(r) == r.kind = "analysis" /\ r.status = 200 /\ r.cacheStatus = "hit"

\* the results performAnalysis returned for the row a hit was answered from
StoredFor(r) == {s \in anLog.stored : s.entry = r.found}

\* C15 as stated: the payload of a hit equals the result that was stored,
\* field for field, nothing added or dropped.
C15_HitPayloadIsStoredResult ==
    Hit(anResp) =>
        /\ StoredFor(anResp) # {}
        /\ \A s \in StoredFor(anResp) : anResp.body = s.result

\* C15: the payload of a hit equals the result that was stored, field for
\* field, except that it also carries metadata.cacheCreatedAt, the creation
\* time of the cache row.
C15_HitPayloadAddsCacheCreatedAt ==
    Hit(anResp) =>
        /\ StoredFor(anResp) # {}
        /\ \A s \in StoredFor(anResp) :
             /\ s.result.metadata.cacheCreatedAt = NoTime
             /\ anResp.body =
                  [s.result EXCEPT !.metadata.cacheCreatedAt = s.entry.created_at]

\* a hit on a row that holds a result of the secondary provider
C15_Witness ==
    /\ Hit(anResp)
    /\ \E s \in StoredFor(anResp) : s.result.metadata.provider = "anthropic"
    /\ anResp.body.metadata.cacheCreatedAt # NoTime

\* s and t have the same characters up to letter case
DiffersOnlyInCase(s, t) ==
    /\ Len(s) = Len(t)
    /\ \A i \in 1..Len(s) : LowerChar(s[i]) = LowerChar(t[i])

\* positions i..j of s hold all of s but leading and trailing white space
Unpadded(s, i, j) ==
    \A k \in (1..(i - 1)) \cup ((j + 1)..Len(s)) : s[k] \in WhiteSpace

\* the texts differ at most in letter case and in leading or trailing white
\* space
TrivialTextVariation(s, t) ==
    \E i, j \in 1..Len(s), k, l \in 1..Len(t) :
        /\ Unpadded(s, i, j)
        /\ Unpadded(t, k, l)
        /\ DiffersOnlyInCase(SubSeq(s, i, j), SubSeq(t, k, l))

\* two requests that differ only in the casing of the text, in leading or
\* trailing white space of the text, or in the casing of the locator
TrivialVariation(a, b) ==
    /\ a.mode = b.mode
    /\ a.lastModified = b.lastModified
    /\ DiffersOnlyInCase(a.url, b.url)
    /\ TrivialTextVariation(a.text, b.text)

\* both keys have been derived
KeysDerived == keys.firstKey # <<>> /\ keys.secondKey # <<>>

\* C16: two requests that differ only in the casing of the content text, in
\* leading or trailing white space of the content text, or in the casing of
\* the locator have the same cache key, so the lookup of one selects the
\* rows stored for the other.
C16_KeyIgnoresTrivialVariation ==
    (KeysDerived /\ TrivialVariation(keys.first, keys.second)) =>
        /\ keys.firstKey = keys.secondKey
        /\ \A rows \in SUBSET {CacheEntryOf(keys.firstKey, NoAnalysisResult,
                                            keys.first, 0, 0)} :
             SelectCache(rows, keys.secondKey) = rows

\* the keys of a request and of its variant in the casing and padding of the
\* text and in the casing of the locator have been derived
C16_Witness ==
    /\ KeysDerived
    /\ TrivialVariation(keys.first, keys.second)
    /\ keys.first.text # keys.second.text
    /\ Len(keys.first.text) # Len(keys.second.text)
    /\ keys.first.url # keys.second.url

\* C17: the freshness token is part of the cache key: two requests with the
\* same locator, content and mode but different freshness tokens have
\* different keys, so a request is never answered from a row that was stored
\* for another freshness token.
C17_HitMatchesFreshnessToken ==
    /\ (/\ KeysDerived
        /\ keys.first.url = keys.second.url
        /\ keys.first.text = keys.second.text
        /\ keys.first.mode = keys.second.mode
        /\ keys.first.lastModified # keys.second.lastModified) =>
           keys.firstKey # keys.secondKey
    /\ Hit(anResp) => anResp.found.last_modified.text = anResp.data.lastModified

\* the request just answered was analysed by a provider
Fresh(r) == r.kind = "analysis" /\ r.status = 200 /\ r.cacheStatus = "miss"

\* the classification fields of a result are those of the parsed answer
ResultOf(result, parsed) ==
    /\ result.classification = parsed.classification
    /\ result.confidenceLevel = parsed.confidenceLevel
    /\ result.confidenceScore = parsed.confidenceScore
    /\ result.keyIndicators = parsed.keyIndicators
    /\ result.reasoning = parsed.reasoning

\* C18: a fresh answer carries the result of the last provider called, which
\* succeeded, and metadata.provider names it: the primary when the primary
\* succeeded, the secondary when the primary failed and the secondary
\* succeeded.
C18_ProviderLabelIsParsedProvider ==
    Fresh(anResp) =>
        LET n == Len(anResp.calls)
        IN /\ n \in {1, 2}
           /\ anResp.calls[n].ok
           /\ anResp.body.metadata.provider = anResp.calls[n].provider
           /\ ResultOf(anResp.body, anResp.calls[n].answer)
           /\ (n = 1) => anResp.body.metadata.provider = "openai"
           /\ (n = 2) => /\ ~anResp.calls[1].ok
                         /\ anResp.calls[1].provider = "openai"
                         /\ anResp.body.metadata.provider = "anthropic"

\* a fresh answer after the primary failed and the secondary succeeded
C18_Witness ==
    /\ Fresh(anResp)
    /\ Len(anResp.calls) = 2
    /\ ~anResp.calls[1].ok
    /\ anResp.calls[2].ok
    /\ anResp.body.metadata.provider = "anthropic"

\* the request just answered called both providers and both failed
BothFailed(r) ==
    /\ r.kind = "analysis"
    /\ Len(r.calls) = 2
    /\ ~r.calls[1].ok
    /\ ~r.calls[2].ok

\* C19: when both providers fail the request fails with the error of
\* performAnalysis, carries no result, and the cache holds no row for its key
\* beyond those it held at the lookup: the failing step writes nothing.
C19_BothFailNoResultNoEntry ==
    [][BothFailed(anResp') =>
          /\ anResp'.status = 500
          /\ anResp'.message = "Content analysis failed. Please try again later."
          /\ anResp'.body = NoAnalysisResult
          /\ anResp'.cacheStatus = ""
          /\ ~anResp'.stored
          /\ cache' = cache
          /\ SelectCache(cache', anResp'.cacheKey) \subseteq anResp'.rows]_vars

\* both providers failed after a miss on an empty table
C19_Witness ==
    /\ BothFailed(anResp)
    /\ anResp.lookups = 1
    /\ anResp.rows = {}
    /\ SelectCache(cache, anResp.cacheKey) = {}

\* the provider calls of one request: at most one to each provider, the
\* primary first, the secondary only after the primary failed
CallsInOrder(calls) ==
    /\ Len(calls) <= 2
    /\ (Len(calls) >= 1) => calls[1].provider = "openai"
    /\ (Len(calls) = 2) => /\ calls[2].provider = "anthropic"
                           /\ ~calls[1].ok

\* C20: within one request at most one call is made to each provider and at
\* most two in total; the secondary is called only after the primary call
\* failed, never when the primary succeeded.
C20_AtMostOneCallPerProvider ==
    /\ CallsInOrder(an.calls)
    /\ CallsInOrder(anResp.calls)
    /\ (an.pc = "secondary") => (Len(an.calls) = 1 /\ ~an.calls[1].ok)
    /\ (an.pc = "store") => an.calls[Len(an.calls)].ok

\* the secondary is being called after the primary failed
C20_Witness ==
    /\ an.pc = "secondary"
    /\ Len(an.calls) = 1
    /\ an.calls[1].provider = "openai"
    /\ ~an.calls[1].ok

\* C21: every request that reached analyzeContent eventually completes, with
\* a result or with a failure, even if a provider never answers.
C21_EveryRequestCompletes == (an.pc # "idle") ~> (an.pc = "idle")

-----------------------------------------------------------------------------
(* Properties of sign-in                                                    *)

\* the sign-ins answered in this step: what authenticateWithGoogle returned
SignedIn(r, entries) ==
    {e \in entries : r.kind = "signin" /\ r.status = 200 /\ e.token = r.token}

\* C22: a sign-in with a valid assertion for a subject that has no identity
\* row returns isNewUser = true, whatever the clock does between its steps.
C22_NewSubjectIsNewUser ==
    [][\A e \in SignedIn(resp', issued') :
          (SelectUser(users, e.user.google_id) = {}) => e.isNewUser]_vars

\* C23: a sign-in for a subject that already has an identity row returns
\* isNewUser = false, the very next sign-in after the creation included.
C23_ExistingSubjectIsNotNewUser ==
    [][\A e \in SignedIn(resp', issued') :
          (SelectUser(users, e.user.google_id) # {}) => ~e.isNewUser]_vars

\* C24: a sign-in with an assertion whose audience is not the configured
\* client id is rejected: it issues no token, creates no identity row and
\* updates no last-authentication time.
C24_ForeignAudienceRejected ==
    [][(resp'.kind = "signin" /\ resp'.aud \notin {"", GOOGLE_CLIENT_ID}) =>
          /\ resp'.status = 401
          /\ resp'.token = <<>>
          /\ issued' = issued
          /\ users' = users]_vars

\* an assertion for another client is rejected while its subject has a row
C24_Witness ==
    /\ resp.kind = "signin"
    /\ resp.aud \notin {"", GOOGLE_CLIENT_ID}
    /\ resp.status = 401
    /\ SelectUser(users, "g1") # {}

\* the last provider call of the request just answered succeeded
ProviderSucceeded(r) ==
    /\ r.kind = "analysis"
    /\ Len(r.calls) > 0
    /\ r.calls[Len(r.calls)].ok

\* C25: cache failures never fail a request: an allowed request whose
\* provider call succeeded is answered 200 with that provider's result,
\* whatever the statements of getCache, deleteCache and setCache did.
C25_CacheFailuresNeverFailRequest ==
    ProviderSucceeded(anResp) =>
        /\ anResp.status = 200
        /\ anResp.cacheStatus = "miss"
        /\ ResultOf(anResp.body, anResp.calls[Len(anResp.calls)].answer)

\* a fresh answer although the INSERT of setCache failed
C25_Witness ==
    /\ ProviderSucceeded(anResp)
    /\ anResp.status = 200
    /\ ~anResp.stored
    /\ ~anLog.clean

\* the age of a row at the instant the request looked the cache up
AgeAtLookup(r, row) == r.lookupAt - FromISO(row.created_at)

\* getCache has just returned null to the request in flight
ReturnedFromLookup ==
    /\ an.pc = "primary"
    /\ an.calls = <<>>

\* ... after finding the row it selected older than the TTL
ReturnedFromEviction ==
    /\ ReturnedFromLookup
    /\ an.expired # NoCacheEntry

StagesAfter(pc) ==
    CASE pc = "idle"      -> {"idle", "rate"}
      [] pc = "rate"      -> {"rate", "lookup", "idle"}
      [] pc = "lookup"    -> {"evict", "primary", "idle"}
      [] pc = "evict"     -> {"primary"}
      [] pc = "primary"   -> {"secondary", "store", "idle"}
      [] pc = "secondary" -> {"store", "idle"}
      [] pc = "store"     -> {"idle"}

\* the stages before the one the request r is in have completed; call is the
\* state of the checkRateLimit call
EarlierStagesCompleted(r, call) ==
    /\ (r.pc # "idle") => (r.userId # "" /\ r.valid /\ r.rateChecks = 1)
    /\ (r.pc \notin {"idle", "rate"}) => (call.pc = "idle")
    /\ (r.pc \in {"rate", "lookup"}) => (r.lookups = 0 /\ r.calls = <<>>)
    /\ (r.pc = "evict") => (r.lookups = 1 /\ r.calls = <<>>)
    /\ (r.pc = "primary") => (r.lookups = 1 /\ r.calls = <<>>)
    /\ (r.pc = "secondary") =>
          (r.lookups = 1 /\ Len(r.calls) = 1 /\ ~r.calls[1].ok)
    /\ (r.pc = "store") =>
          (r.lookups = 1 /\ r.calls # <<>> /\ r.calls[Len(r.calls)].ok)

\* the response r of a request that a stage rejected shows no later stage
NoStageAfterRejection(r) ==
    /\ (r.kind = "analysis" /\ r.status = 401) =>
          (~r.valid /\ r.data = NoRequestData /\ r.rateChecks = 0)
    /\ (r.kind = "analysis" /\ r.status = 400) => (r.authed /\ r.rateChecks = 0)
    /\ (r.kind = "analysis" /\ (r.status \in {400, 401} \/ r.denied)) =>
          (r.lookups = 0 /\ r.calls = <<>> /\ ~r.stored)
    /\ (r.kind = "analysis" /\ r.stored) =>
          (r.authed /\ r.valid /\ r.rateChecks = 1 /\ r.lookups = 1 /\ r.calls # <<>>)

\* C27: the stages of a request run in the order authentication, validation,
\* rate-limit check, cache lookup, provider calls, cache store; a stage is
\* entered only when the ones before it have completed, and a request that
\* authentication, validation or the rate limiter rejected reaches no later
\* stage.
C27_StagesInOrder ==
    [][/\ an'.pc \in StagesAfter(an.pc)
       /\ EarlierStagesCompleted(an', rl')
       /\ (rlResp'.kind = "rate" /\ ~rlResp'.allowed) => (an'.pc = "idle")
       /\ NoStageAfterRejection(anResp')]_vars

\* a request went through every stage, and its cache store completed
C27_Witness ==
    /\ anResp.kind = "analysis"
    /\ anResp.stored
    /\ anResp.rateChecks = 1
    /\ anResp.lookups = 1
    /\ Len(anResp.calls) = 2

\* the request just answered was validated and the rate limiter allowed it
Allowed(r) == r.kind = "analysis" /\ r.authed /\ r.valid /\ ~r.denied

\* C28: when every statement of the rate limiter has succeeded, a validated
\* request that the limiter allowed has made one check-and-increment and
\* leaves the daily count of its identity one higher than it found it,
\* whether it was answered from the cache, answered fresh, or failed at both
\* providers.
C28_AllowedRequestConsumesOneUnit ==
    (Allowed(anResp) /\ rlLog.clean) =>
        /\ anResp.rateChecks = 1
        /\ CurrentCount(usage, anResp.userId, anResp.quota.day)
             = anResp.quota.count + 1

-----------------------------------------------------------------------------
(* Properties of authenticate and revoke *)

\* C29: while the SELECT of checkTokenBlacklist is in flight for a request,
\* the token of that request passes verifyJWT (signature, and expiry at the
\* instant the request arrived).
C29_LookupOnlyAfterVerify ==
    (req.pc = "auth") => verifyJWT(req.token, JWT_SECRET, req.t0).ok

\* C30: the row a successful logout wrote to token_blacklist expires at the
\* exp of the token it revokes.
C30_RevocationExpiresWithToken ==
    (resp.kind = "logout" /\ resp.status = 200) =>
        resp.written.expires_at = ToISOString(resp.user.exp * 1000)

\* what the SELECT of checkTokenBlacklist finds for the request r in rows
LookupFinds(r, rows) == SelectBlacklist(rows, Sha256Hex(r.token), ToISOString(r.t0))

\* C31: a DELETE of cleanupExpiredTokens that runs while the SELECT of
\* checkTokenBlacklist is in flight removes no row that the SELECT would find,
\* so the revocation check ends the same with and without the cleanup.
C31_CleanupKeepsLookupResult ==
    [][(req.pc = "auth" /\ req'.pc = "auth" /\ blacklist' \subseteq blacklist) =>
          (LookupFinds(req, blacklist') = LookupFinds(req, blacklist))]_vars

\* C40: a request whose revocation lookup returned an error or raised is
\* answered 401 by authenticate and goes no further: it is not treated as
\* authenticated and writes no revocation record, whatever its token is.
C40_RevocationCheckFailsClosed ==
    /\ ~req.lookupFailed
    /\ resp.lookupFailed =>
          /\ resp.status = 401
          /\ ~resp.authed
          /\ resp.written = NoBlacklistRow
          /\ resp.authError = OpaqueAuthError

\* a request with a token that verifyJWT accepts was refused because its
\* revocation lookup failed
C40_Witness ==
    /\ resp.lookupFailed
    /\ resp.status = 401
    /\ verifyJWT(resp.token, JWT_SECRET, now).ok
    /\ SelectBlacklist(blacklist, Sha256Hex(resp.token), ToISOString(now)) = {}

-----------------------------------------------------------------------------
(* Further properties of the rate limiter *)

\* what a checkRateLimit call of userId that reads the clock at t answers for
\* allowed when its SELECT succeeds over rows: currentCount < DAILY_LIMIT for
\* the row of the UTC date of t
AllowedAt(rows, userId, t) == CurrentCount(rows, userId, Today(t)) < DAILY_LIMIT

\* C39: when a call is denied with retryAfter = r, a call of the same
\* identity r seconds later is allowed.
C39_RetryAfterIsHonest ==
    DeniedAtLimit =>
        AllowedAt(usage, rlResp.userId, now + rlResp.retryAfter * 1000)

\* the closed sets of the AnalysisResult type; scores are in hundredths
WellShaped(classification, confidenceLevel, confidenceScore) ==
    /\ classification \in {"ai-generated", "human-written"}
    /\ confidenceLevel \in {"high", "medium", "low"}
    /\ confidenceScore \in 0..100

\* C34: every result a 200 answer carries, and every result the cache table
\* holds, has a classification, a confidence level and a confidence score
\* of the AnalysisResult type.
C34_ResultsAreWellShaped ==
    /\ (anResp.kind = "analysis" /\ anResp.status = 200) =>
          WellShaped(anResp.body.classification, anResp.body.confidenceLevel,
                     anResp.body.confidenceScore)
    /\ \A e \in cache :
          WellShaped(e.result.classification, e.result.confidence_level,
                     e.result.confidence_score)

\* C32: the table holds at most one counter row per identity and day.
C32_OneCounterRowPerIdentityAndDay ==
    \A r1 \in usage, r2 \in usage :
        (r1.user_id = r2.user_id /\ r1.created_at = r2.created_at) => (r1 = r2)

\* two overlapping first calls of the day both went on to INSERT, the second
\* INSERT was rejected, and the row of the first is the only one
C32_Witness ==
    /\ tasks.log.base = -1
    /\ tasks.log.conflicts > 0
    /\ tasks.log.allowed = 2
    /\ Cardinality(SelectUsage(usage, Caller, 0)) = 1
    /\ \A i \in Tasks : tasks.call[i].pc = "idle"

\* the run of overlapping calls started from a row of the caller and every
\* statement has succeeded
CleanRunFromRow == tasks.log.base >= 0 /\ tasks.log.fails = 0

\* the calls of the day answered allowed = true: those the row stood for at
\* the start, and those of the run
AllowedToday == tasks.log.base + tasks.log.allowed

\* C33: with at most MaxTasks overlapping calls, an existing row and every
\* statement succeeding, at most DAILY_LIMIT + MaxTasks - 1 calls of a day
\* are answered allowed = true, and when no call is in flight the stored
\* count is the number of calls answered allowed = true.
C33_OvershootBoundedByOverlap ==
    CleanRunFromRow =>
        /\ AllowedToday <= DAILY_LIMIT + MaxTasks - 1
        /\ (\A i \in Tasks : tasks.call[i].pc = "idle") =>
              (CurrentCount(usage, Caller, 0) = AllowedToday)

\* overlapping calls read the same count below the limit and the day ended
\* with MaxTasks - 1 calls over the limit, then a call was denied
C33_Witness ==
    /\ CleanRunFromRow
    /\ AllowedToday = DAILY_LIMIT + MaxTasks - 1
    /\ tasks.log.denied > 0
    /\ CurrentCount(usage, Caller, 0) = DAILY_LIMIT + MaxTasks - 1

-----------------------------------------------------------------------------
(* Properties of overlapping sign-ins *)

\* C36: no step lowers the last_login_at of an identity row.
C36_LastLoginNeverDecreases ==
    [][\A before \in users, after \in users' :
          (before.id = after.id) =>
              ~IsoLess(after.last_login_at, before.last_login_at)]_vars

\* the identity rows the token names, by the userId of its payload
RowsOf(token) == {r \in users : r.id = verifyJWT(token, JWT_SECRET, now).payload.userId}

\* C37: no two identity rows share a subject or an email, and every token a
\* sign-in returned names an identity row of the table, the one of its
\* subject.
C37_IdentitiesUniqueAndTokensNameThem ==
    /\ \A r1 \in users, r2 \in users :
          (r1.google_id = r2.google_id \/ r1.email = r2.email) => (r1 = r2)
    /\ \A e \in tasks.log.returned :
          \E r \in RowsOf(e.token) : r.google_id = e.sub

\* two overlapping sign-ins of a new subject both went on to INSERT: one was
\* rejected and failed, the other returned a token for the only row
C37_Witness ==
    /\ tasks.log.rejected > 0
    /\ tasks.log.fails = 0
    /\ Cardinality(users) = 1
    /\ tasks.log.returned # {}
    /\ \A i \in Tasks : tasks.call[i].pc = "idle"

-----------------------------------------------------------------------------
(* Further properties of the cache *)

\* the columns getCache selects by
LookupKeyOf(e) == <<e.url_hash, e.content_hash, e.mode>>

\* C35: the cache holds at most one entry per lookup key (url_hash,
\* content_hash, mode).
C35_OneEntryPerLookupKey ==
    \A e1 \in cache, e2 \in cache : (LookupKeyOf(e1) = LookupKeyOf(e2)) => (e1 = e2)

\* C38: getCache deletes only stale entries: every entry a step removes from
\* the cache is older than maxAge at that step.
C38_EvictionRemovesOnlyStale ==
    [][\A e \in cache \ cache' : CacheExpired(e, now)]_vars

====
